---------------------------- MODULE Spec2Model ----------------------------
(***************************************************************************)
(* Verification model of the iot_driver_copilot device drivers.            *)
(*                                                                         *)
(* Every driver of the repository is an independent process, so each has   *)
(* its own variables, its own next-state relation and its own              *)
(* specification (SpecRTSP, SpecBB, SpecHik, SpecRos, SpecCar).  A         *)
(* driver's specification leaves the variables of the other drivers        *)
(* unchanged.                                                              *)
(***************************************************************************)
EXTENDS Integers, Sequences, FiniteSets, TLC

(***************************************************************************)
(* Bounds of the model (not program constants).                            *)
(***************************************************************************)
\* capture handles (cv2.VideoCapture objects) start_stream may create
MaxHandles == 2
\* frames the camera delivers in one behaviour
MaxFrames == 2
\* concurrent GET /stream.mjpg requests
NumGens == 1
\* distinct data values the Hikvision decoder reports in one behaviour
MaxHikData == 2
\* messages the Wheeltec robot publishes in one behaviour
MaxRosMsgs == 2
\* keys a Wheeltecros request body or protocolPropertyList may hold
NumCarKeys == 1
\* values such a key may take
MaxCarVal == 2
\* messages the broker delivers to the Wheeltecros driver in one behaviour
MaxCarMsgs == 3
\* setpoint values a client of the room controller may send
MaxSetVal == 2
\* values a body of POST /api/control may give a control point
MaxCtlVal == 1
\* HTTP requests the shared-application BACnet driver receives in one behaviour
MaxHvRequests == 2
\* answers of the device that may lie unread in response_queue
MaxHvQueue == 1
\* requests the device may hold unanswered
MaxHvPending == 1

(***************************************************************************)
(* Program constants.                                                      *)
(***************************************************************************)
\* rtsp_camera/driver.py:40   for i in range(10)
OpenAttempts == 10

VARIABLES
    \* ---- rtsp_camera/driver.py : RTSPStream and CameraRequestHandler ----
    streaming,     \* RTSPStream.streaming
    capture,       \* RTSPStream.capture: 0 is None, else a handle id
    last_frame,    \* RTSPStream.last_frame: NoFrame is None
    hstate,        \* per handle: "unused", "closed" (created, not opened), "open", "released"
    releases,      \* per handle: number of release() calls made on it
    alive,         \* number of _update_frames threads that have not left their loop
    frameSeq,      \* number of frames the camera has delivered so far
    lastCaptured,  \* the last frame read from self.capture (by any reader of it)
    gpc,           \* per GET /stream.mjpg request: its position
    gframe,        \* per request: the frame taken from the buffer for the next chunk
    ghttp,         \* per request: HTTP status sent (0: none yet)
    cameraUp,      \* environment: the camera answers
    rtspRet,       \* what the handler of the last step returned (NoRet: nothing)
    \* ---- ba_cnet_based_hvac_controller/driver.py ----
    bbDevUp,       \* environment: the BACnet device answers
    bbResults,     \* api_data: the results dict of the last request
    bbStatus,      \* api_data: the HTTP status of the last request (0: none yet)
    \* ---- hikvision_decoder/driver.py : DeviceShifuDriver ----
    hkPhase,       \* "boot" until run() has connected and started the server
    hkConnector,   \* self.connector: "none" or "obj"
    hkConnected,   \* self.connector.connected
    hkLatest,      \* self.latest_data: per instruction 0 (no entry) or the cached result
    hkDevConn,     \* self.status["device_connection"]
    hkDevUp,       \* environment: the decoder answers HTTP
    hkDevData,     \* environment: the data the decoder reports
    hkResp,        \* the response of the last HTTP request
    hkLast200,     \* history: per instruction the result of the last handle_device_request that returned 200 (0: none)
    \* ---- wheeltec_ros_robot/driver.py ----
    rosBridge,     \* ros_bridge: "starting", "none" (init failed) or "node"
    rosMsg,        \* per sensor: odom_msg / imu_msg / scan_msg, 0 is None
    rosEvent,      \* per sensor: odom_event / imu_event / scan_event
    rosPublishing, \* environment: the robot publishes its topics
    rosSeq,        \* environment: number of messages the robot has published
    rosResp,       \* the response of the last HTTP request
    \* ---- wheeltecros机器人/driver.py ----
    carPhase,      \* "boot", "serving" or "exited" (main)
    carCfg,        \* instruction_config: per API its protocolPropertyList
    carResp,       \* the last POST: its request, its status, the messages it published
    \* ---- wheeltecros机器人/driver.py : MQTTDriver subscriptions ----
    sub_queues,    \* MQTTDriver.sub_queues: per topic "unsub" (no key) or the Queue
    carLatest,     \* per topic the message on_message last put (0: none)
    carMsgSeq,     \* environment: number of messages delivered so far
    carGetResp,    \* the response of the last GET
    \* ---- ba_cnet_hvac_room_controller/driver.py ----
    active_setpoint, \* active_setpoint.presentValue
    setpoints,     \* setpoint1..3.presentValue, by index (0: the preset of the object)
    outOfService,  \* active_setpoint.outOfService
    rcResp,        \* the last HTTP request and its response
    \* ---- ba_cnet_based_hvac_controller/driver.py : api_control ----
    bbPayload,     \* the JSON body of the last POST /api/control, per control point (Absent: no key)
    bbWrites,      \* the write_property calls the last POST made, in order
    bbCtlOutcomes, \* environment: what each of these writes met ("none": no write)
    bbCtlResult,   \* api_control: the result dict of the last POST
    bbCtlStatus,   \* api_control: the HTTP status of the last POST (0: none yet)
    \* ---- ba_cnet_hvac_controller/driver.py ----
    hvStarted,     \* number of HTTP requests received so far
    hvPc,          \* per HTTP request: "unstarted", "send", "wait" or "done"
    hvOp,          \* per HTTP request: "none", "data" (GET /api/data) or "control" (POST /api/control)
    hvTodo,        \* per HTTP request: the fields its loop has still to handle, the current one first
    hvLast,        \* per HTTP request: the entry its loop stored last in its result dict
    hvSuccess,     \* per HTTP request: post_control's success flag
    hvStatus,      \* per HTTP request: the HTTP status sent (0: none yet)
    response_queue, \* bacnet_app.response_queue, oldest first
    hvPending,     \* environment: the requests the device has received and not answered
    \* ---- smart_environmental_monitoring_device/driver.py ----
    alarm_threshold, \* state["alarm_threshold"], per sensor key
    led_brightness, \* state["led_brightness"]
    status_led,    \* state["status"]["led"]
    buzzer,        \* state["buzzer"]
    envAck,        \* what the last on_message published on an /ack topic (NoAck: nothing)
    alarm_active,  \* state["alarm_active"]
    \* ---- multi_channel_decoder: run / shutdown / periodic publishers ----
    shutdown_flag, \* threading.Event: TRUE once set
    decMainPc,     \* position of run() in the main thread
    decPubPc,      \* position of each periodic publisher thread
    latest_data,   \* per topic, number of the last sample retrieved (0 = none)
    mqtt_status,   \* connection_status['mqtt']
    mqtt_client,   \* "none" | "up" | "down" | "stopped" (after loop_stop/disconnect)
    decSent,       \* per topic, messages handed to the broker
    \* ---- device_network_sdk/driver.py : the MQTT connection ----
    sdkShutdown,   \* self.shutdown_flag
    sdkPc,         \* run(): "connect" (the loop of connect_mqtt), "await", "running" or "stopped"
    mqtt_connected, \* self.mqtt_connected (an Event) and self.connected
    sdkLink,       \* the client's connection: "none", "tcp" (CONNACK pending), "up" or "lost"
    sdkAttempts,   \* number of connect() calls connect_mqtt has made
    sdkConnFailed, \* number of "MQTT connection failed" errors logged
    sdkReconnects, \* number of reconnect() calls on_disconnect has made
    sdkReconnFailed, \* number of "MQTT reconnection failed" errors logged
    sdkTimedOut,   \* "MQTT connection could not be established" was logged
    sdkCbPc,       \* on_disconnect: "idle" or "reconnect" (in its loop)
    sdkBrokerUp,   \* environment: the broker accepts connections
    \* ---- hvac_room_thermostat/driver.py ----
    hvac_controller, \* the global hvac_controller: FALSE is None
    thConnected,   \* connection_status["connected"]
    thLoopRunning, \* loop is not None and loop.is_running()
    thResp,        \* the last POST /api/control: its input, what the task did, the response
    \* ---- device_network_sdk/driver.py : inbound messages ----
    sdkInbox,      \* messages the broker has for the driver, oldest first
    sdkInjected,   \* environment: number of messages other clients have published
    sdkPubs,       \* number of publishes the driver has made, counted up to MaxSdkPubs
    \* ---- multi_channel_network_video_decoder/driver.py : inbound messages ----
    nvdInbox,      \* messages the broker has for the driver, oldest first
    nvdInjected,   \* environment: number of messages other clients have published
    nvdPubs,       \* number of publishes the driver has made, counted up to MaxNvdPubs
    nvdLinkUp,     \* environment: the client is connected, a publish reaches the broker
    \* ---- multi_channel_network_video_decoder/driver.py : connect_mqtt ----
    nvdEvent,      \* self.mqtt_connected (an Event)
    nvdPc,         \* per caller of connect_mqtt ("main": run, "callback": on_disconnect): its position
    nvdLive,       \* number of client objects whose network loop has been started (none is ever stopped)
    nvdLinked,     \* a client holds a broker connection whose loss has not been reported
    nvdBrokerUp,   \* environment: the broker accepts connections
    \* ---- wheeltecros机器人/driver.py : the MQTT connection and the EdgeDevice phase ----
    carMainPc,     \* main: "boot", "serving" or "exited"
    connect_event, \* MQTTDriver._connect_event
    disconnect_event, \* MQTTDriver._disconnect_event
    carLink,       \* the client's connection to the broker: "none", "up" or "lost"
    edgeDevicePhase, \* status.edgeDevicePhase of the EdgeDevice ("": never patched)
    prev_phase,    \* phase_monitor: prev_phase
    carPolls,      \* number of phase_monitor passes, counted up to MaxCarPolls
    k8sUp,         \* environment: the Kubernetes API accepts the status patch
    \* ---- ba_cnet_hvac_room_controller_(se_8000/vt_8300_simulated)/driver.py ----
    multistate_value, \* SimulatedBACnet.multistate_value[0], the operating mode
    analog_value0, \* SimulatedBACnet.analog_values[0], the active setpoint index
    simPresets,    \* SimulatedBACnet.analog_values[1..3], the preset values
    out_of_service, \* SimulatedBACnet.out_of_service[0]
    simCtlCode,    \* the HTTP status of the last POST /api/control (0: none yet)
    simReadPc,     \* a GET /api/data request: "idle", "temps", "setpoints" (parts read so far) or "done"
    simData,       \* the setpoints and status parts of that request's response
    simSeen,       \* the device states that have existed since that request began
    \* ---- smart_environmental_monitoring_device: the publish_telemetry thread ----
    telPc,         \* where the publish_telemetry thread is (simulate, publish, sleep; dead: ended by an exception)
    telBatches,    \* batches of sensor topics published so far, counted up to MaxTelBatches
    envRestarts    \* RESTART commands handled so far

rtspVars == <<streaming, capture, last_frame, hstate, releases, alive, frameSeq,
              lastCaptured, gpc, gframe, ghttp, cameraUp,
              rtspRet>>

bbVars  == <<bbDevUp, bbResults, bbStatus>>
hikVars == <<hkPhase, hkConnector, hkConnected, hkLatest, hkDevConn, hkDevUp,
             hkDevData, hkResp, hkLast200>>
rosVars == <<rosBridge, rosMsg, rosEvent, rosPublishing, rosSeq, rosResp>>
carVars == <<carPhase, carCfg, carResp>>
carSubVars == <<sub_queues, carLatest, carMsgSeq, carGetResp>>
rcVars == <<active_setpoint, setpoints, outOfService, rcResp>>
bbCtlVars == <<bbPayload, bbWrites, bbCtlOutcomes, bbCtlResult, bbCtlStatus>>
hvVars == <<hvStarted, hvPc, hvOp, hvTodo, hvLast, hvSuccess, hvStatus,
            response_queue, hvPending>>
envVars == <<alarm_threshold, led_brightness, status_led, buzzer, envAck,
             alarm_active>>
decVars == <<shutdown_flag, decMainPc, decPubPc, latest_data, mqtt_status, mqtt_client, decSent>>
sdkVars == <<sdkShutdown, sdkPc, mqtt_connected, sdkLink, sdkAttempts, sdkConnFailed, sdkReconnects, sdkReconnFailed, sdkTimedOut, sdkCbPc, sdkBrokerUp>>
thVars == <<hvac_controller, thConnected, thLoopRunning, thResp>>
sdkMsgVars == <<sdkInbox, sdkInjected, sdkPubs>>
nvdMsgVars == <<nvdInbox, nvdInjected, nvdPubs, nvdLinkUp>>
nvdVars == <<nvdEvent, nvdPc, nvdLive, nvdLinked, nvdBrokerUp>>
carConnVars == <<carMainPc, connect_event, disconnect_event, carLink, edgeDevicePhase, prev_phase, carPolls, k8sUp>>
simVars == <<multistate_value, analog_value0, simPresets, out_of_service, simCtlCode, simReadPc, simData, simSeen>>
envTelVars == <<telPc, telBatches, envRestarts>>

vars == <<rtspVars, bbVars, hikVars, rosVars, carVars, carSubVars, rcVars, bbCtlVars, hvVars, envVars, decVars, sdkVars, thVars, sdkMsgVars, nvdMsgVars, nvdVars, carConnVars, simVars, envTelVars>>

\* the drivers are separate processes: a step of one leaves the others alone
notRTSP    == <<bbVars, hikVars, rosVars, carVars, carSubVars, rcVars,
                 bbCtlVars, hvVars, envVars, decVars, sdkVars, thVars,
                 sdkMsgVars, nvdMsgVars, nvdVars, carConnVars, simVars,
                 envTelVars>>
notBB      == <<rtspVars, hikVars, rosVars, carVars, carSubVars, rcVars,
                 bbCtlVars, hvVars, envVars, decVars, sdkVars, thVars,
                 sdkMsgVars, nvdMsgVars, nvdVars, carConnVars, simVars,
                 envTelVars>>
notHik     == <<rtspVars, bbVars, rosVars, carVars, carSubVars, rcVars,
                 bbCtlVars, hvVars, envVars, decVars, sdkVars, thVars,
                 sdkMsgVars, nvdMsgVars, nvdVars, carConnVars, simVars,
                 envTelVars>>
notRos     == <<rtspVars, bbVars, hikVars, carVars, carSubVars, rcVars,
                 bbCtlVars, hvVars, envVars, decVars, sdkVars, thVars,
                 sdkMsgVars, nvdMsgVars, nvdVars, carConnVars, simVars,
                 envTelVars>>
notCar     == <<rtspVars, bbVars, hikVars, rosVars, carSubVars, rcVars,
                 bbCtlVars, hvVars, envVars, decVars, sdkVars, thVars,
                 sdkMsgVars, nvdMsgVars, nvdVars, carConnVars, simVars,
                 envTelVars>>
notCarSub  == <<rtspVars, bbVars, hikVars, rosVars, carVars, rcVars,
                 bbCtlVars, hvVars, envVars, decVars, sdkVars, thVars,
                 sdkMsgVars, nvdMsgVars, nvdVars, carConnVars, simVars,
                 envTelVars>>
notRC      == <<rtspVars, bbVars, hikVars, rosVars, carVars, carSubVars,
                 bbCtlVars, hvVars, envVars, decVars, sdkVars, thVars,
                 sdkMsgVars, nvdMsgVars, nvdVars, carConnVars, simVars,
                 envTelVars>>
notBBCtl   == <<rtspVars, bbVars, hikVars, rosVars, carVars, carSubVars,
                 rcVars, hvVars, envVars, decVars, sdkVars, thVars,
                 sdkMsgVars, nvdMsgVars, nvdVars, carConnVars, simVars,
                 envTelVars>>
notHV      == <<rtspVars, bbVars, hikVars, rosVars, carVars, carSubVars,
                 rcVars, bbCtlVars, envVars, decVars, sdkVars, thVars,
                 sdkMsgVars, nvdMsgVars, nvdVars, carConnVars, simVars,
                 envTelVars>>
notEnv     == <<rtspVars, bbVars, hikVars, rosVars, carVars, carSubVars,
                 rcVars, bbCtlVars, hvVars, decVars, sdkVars, thVars,
                 sdkMsgVars, nvdMsgVars, nvdVars, carConnVars, simVars,
                 envTelVars>>
notDec     == <<rtspVars, bbVars, hikVars, rosVars, carVars, carSubVars,
                 rcVars, bbCtlVars, hvVars, envVars, sdkVars, thVars,
                 sdkMsgVars, nvdMsgVars, nvdVars, carConnVars, simVars,
                 envTelVars>>
notSdk     == <<rtspVars, bbVars, hikVars, rosVars, carVars, carSubVars,
                 rcVars, bbCtlVars, hvVars, envVars, decVars, thVars,
                 sdkMsgVars, nvdMsgVars, nvdVars, carConnVars, simVars,
                 envTelVars>>
notTh      == <<rtspVars, bbVars, hikVars, rosVars, carVars, carSubVars,
                 rcVars, bbCtlVars, hvVars, envVars, decVars, sdkVars,
                 sdkMsgVars, nvdMsgVars, nvdVars, carConnVars, simVars,
                 envTelVars>>
notSdkMsg  == <<rtspVars, bbVars, hikVars, rosVars, carVars, carSubVars,
                 rcVars, bbCtlVars, hvVars, envVars, decVars, sdkVars, thVars,
                 nvdMsgVars, nvdVars, carConnVars, simVars, envTelVars>>
notNvdMsg  == <<rtspVars, bbVars, hikVars, rosVars, carVars, carSubVars,
                 rcVars, bbCtlVars, hvVars, envVars, decVars, sdkVars, thVars,
                 sdkMsgVars, nvdVars, carConnVars, simVars, envTelVars>>
notNvd     == <<rtspVars, bbVars, hikVars, rosVars, carVars, carSubVars,
                 rcVars, bbCtlVars, hvVars, envVars, decVars, sdkVars, thVars,
                 sdkMsgVars, nvdMsgVars, carConnVars, simVars, envTelVars>>
notCarConn == <<rtspVars, bbVars, hikVars, rosVars, carVars, carSubVars,
                 rcVars, bbCtlVars, hvVars, envVars, decVars, sdkVars, thVars,
                 sdkMsgVars, nvdMsgVars, nvdVars, simVars, envTelVars>>
notSim     == <<rtspVars, bbVars, hikVars, rosVars, carVars, carSubVars,
                 rcVars, bbCtlVars, hvVars, envVars, decVars, sdkVars, thVars,
                 sdkMsgVars, nvdMsgVars, nvdVars, carConnVars, envTelVars>>
notEnvTel  == <<rtspVars, bbVars, hikVars, rosVars, carVars, carSubVars,
                 rcVars, bbCtlVars, hvVars, envVars, decVars, sdkVars, thVars,
                 sdkMsgVars, nvdMsgVars, nvdVars, carConnVars, simVars>>
\* everything but envVars and envTelVars
notEnvAll  == <<rtspVars, bbVars, hikVars, rosVars, carVars, carSubVars, rcVars, bbCtlVars, hvVars, decVars, sdkVars, thVars, sdkMsgVars, nvdMsgVars, nvdVars, carConnVars, simVars>>

-----------------------------------------------------------------------------
(***************************************************************************)
(* rtsp_camera/driver.py                                                   *)
(***************************************************************************)
Handles == 1..MaxHandles
Gens    == 1..NumGens

NoFrame == [seq |-> 0, h |-> 0]
\* a frame: its place in the order of capture and the handle it was read
\* from (0: the tmp_cap of get_snapshot)
Frames  == [seq : 0..MaxFrames, h : 0..MaxHandles]
NoRet   == [op |-> "none", ok |-> FALSE, polls |-> 0, http |-> 0]

\* handles created so far
NumCreated == Cardinality({h \in Handles : hstate[h] # "unused"})

\* cv2.VideoCapture.isOpened()
isOpened(h) == hstate[h] = "open"

\* RTSPStream.__init__
InitRTSP ==
    /\ streaming = FALSE
    /\ capture = 0
    /\ last_frame = NoFrame
    /\ hstate = [h \in Handles |-> "unused"]
    /\ releases = [h \in Handles |-> 0]
    /\ alive = 0
    /\ frameSeq = 0
    /\ lastCaptured = NoFrame
    /\ gpc = [g \in Gens |-> "idle"]
    /\ gframe = [g \in Gens |-> NoFrame]
    /\ ghttp = [g \in Gens |-> 0]
    /\ cameraUp = TRUE
    /\ rtspRet = NoRet

\* A mutant of AlreadyRunning: the guard is dropped.
AlreadyRunning_Never == FALSE

\* the guard of start_stream: a stream is already running
AlreadyRunning == streaming /\ capture # 0 /\ isOpened(capture)

\* RTSPStream.start_stream, the whole locked section.  ok is its return value,
\* polls the number of isOpened() polls it made.
start_stream(ok, polls) ==
    IF AlreadyRunning
    THEN /\ ok = TRUE /\ polls = 0
         /\ UNCHANGED <<streaming, capture, hstate, releases, alive>>
    ELSE /\ NumCreated < MaxHandles
         /\ LET h == NumCreated + 1 IN
            IF cameraUp
            THEN \* the handle reports opened at the first poll
                 /\ ok = TRUE /\ polls = 1
                 /\ capture' = h
                 /\ hstate' = [hstate EXCEPT ![h] = "open"]
                 /\ streaming' = TRUE
                 /\ alive' = alive + 1
                 /\ UNCHANGED releases
            ELSE \* never opened: OpenAttempts polls, then give up
                 /\ ok = FALSE /\ polls = OpenAttempts
                 /\ streaming' = FALSE
                 /\ hstate' = [hstate EXCEPT ![h] = "released"]
                 /\ releases' = [releases EXCEPT ![h] = @ + 1]
                 /\ capture' = 0
                 /\ UNCHANGED alive


\* A mutant of StoreFrame: a frame is stored only into an empty buffer, so a
\* newer frame does not replace an older one.
StoreFrame_KeepOld(old, new) == IF old = NoFrame THEN new ELSE old

\* self.last_frame = frame: the single slot is overwritten
StoreFrame(old, new) == new

\* RTSPStream._update_frames: one iteration of the loop of one of the live
\* threads, i.e. one locked section (the sleep between two iterations is the
\* gap between two steps).  The threads keep nothing from one iteration to
\* the next, so the model counts them.
update_frames ==
    /\ alive > 0
    /\ IF ~streaming \/ capture = 0
       THEN \* break
            /\ alive' = alive - 1
            /\ rtspRet' = NoRet
            /\ UNCHANGED <<streaming, capture, last_frame, hstate, releases,
                           frameSeq, lastCaptured>>
       ELSE IF ~cameraUp
       THEN \* ret is False: connection error
            /\ streaming' = FALSE
            /\ hstate' = [hstate EXCEPT ![capture] = "released"]
            /\ releases' = [releases EXCEPT ![capture] = @ + 1]
            /\ capture' = 0
            /\ alive' = alive - 1
            /\ rtspRet' = NoRet
            /\ UNCHANGED <<last_frame, frameSeq, lastCaptured>>
       ELSE /\ frameSeq < MaxFrames
            /\ LET frame == [seq |-> frameSeq + 1, h |-> capture] IN
               /\ last_frame' = StoreFrame(last_frame, frame)
               /\ lastCaptured' = frame
            /\ frameSeq' = frameSeq + 1
            /\ rtspRet' = NoRet
            /\ UNCHANGED <<streaming, capture, hstate, releases, alive>>
    /\ UNCHANGED <<gpc, gframe, ghttp, cameraUp>>
    /\ UNCHANGED notRTSP

\* The shared state stop_stream works on, as a record, and stop_stream as a
\* function of it.
StreamState == [streaming |-> streaming, capture |-> capture,
                last_frame |-> last_frame, hstate |-> hstate,
                releases |-> releases]

\* A mutant of StopResult: the handle is released but self.capture is not
\* reset to None.
StopResult_KeepCapture(s) ==
    [s EXCEPT !.hstate = IF s.capture # 0
                         THEN [s.hstate EXCEPT ![s.capture] = "released"]
                         ELSE s.hstate,
              !.releases = IF s.capture # 0
                           THEN [s.releases EXCEPT ![s.capture] = @ + 1]
                           ELSE s.releases,
              !.streaming = FALSE,
              !.last_frame = NoFrame]

\* RTSPStream.stop_stream
StopResult(s) ==
    [s EXCEPT !.hstate = IF s.capture # 0
                         THEN [s.hstate EXCEPT ![s.capture] = "released"]
                         ELSE s.hstate,
              !.releases = IF s.capture # 0
                           THEN [s.releases EXCEPT ![s.capture] = @ + 1]
                           ELSE s.releases,
              !.capture = 0,
              !.streaming = FALSE,
              !.last_frame = NoFrame]

stop_stream ==
    LET r == StopResult(StreamState) IN
    /\ streaming' = r.streaming
    /\ capture' = r.capture
    /\ last_frame' = r.last_frame
    /\ hstate' = r.hstate
    /\ releases' = r.releases

\* RTSPStream.get_snapshot, the whole locked section; frame is its return
\* value (NoFrame is None).
get_snapshot(frame) ==
    IF ~streaming \/ capture = 0
    THEN \* tmp_cap: open, grab one, release
         /\ IF ~cameraUp
            THEN frame = NoFrame /\ UNCHANGED frameSeq
            ELSE /\ frameSeq < MaxFrames
                 /\ frame = [seq |-> frameSeq + 1, h |-> 0]
                 /\ frameSeq' = frameSeq + 1
         /\ UNCHANGED lastCaptured
    ELSE IF last_frame # NoFrame
    THEN frame = last_frame /\ UNCHANGED <<frameSeq, lastCaptured>>
    ELSE \* no buffered frame yet: read one from self.capture
         IF ~cameraUp
         THEN frame = NoFrame /\ UNCHANGED <<frameSeq, lastCaptured>>
         ELSE /\ frameSeq < MaxFrames
              /\ frame = [seq |-> frameSeq + 1, h |-> capture]
              /\ frameSeq' = frameSeq + 1
              /\ lastCaptured' = frame


\* A mutant of StartStatus: the handler answers 200 whatever start_stream
\* returned.
StartStatus_Always200(ok) == 200

\* do_POST and do_GET: the status sent for the value start_stream returned
StartStatus(ok) == IF ok THEN 200 ELSE 500

\* CameraRequestHandler.do_POST, path /stream/start
do_POST_stream_start ==
    /\ \E ok \in BOOLEAN, polls \in {0, 1, OpenAttempts} :
          /\ start_stream(ok, polls)
          /\ rtspRet' = [NoRet EXCEPT !.op = "start", !.ok = ok, !.polls = polls,
                                      !.http = StartStatus(ok)]
    /\ UNCHANGED <<last_frame, frameSeq, lastCaptured, gpc, gframe,
                   ghttp, cameraUp>>
    /\ UNCHANGED notRTSP

\* CameraRequestHandler.do_POST, path /stream/stop
do_POST_stream_stop ==
    /\ stop_stream
    /\ rtspRet' = [NoRet EXCEPT !.op = "stop", !.http = 200]
    /\ UNCHANGED <<alive, frameSeq, lastCaptured, gpc, gframe, ghttp,
                   cameraUp>>
    /\ UNCHANGED notRTSP

\* CameraRequestHandler.do_GET, path /snapshot.  encOk is the ret of
\* cv2.imencode.
do_GET_snapshot ==
    /\ \E frame \in Frames, encOk \in BOOLEAN :
          /\ get_snapshot(frame)
          /\ LET served == frame # NoFrame /\ encOk IN
             /\ rtspRet' = [NoRet EXCEPT !.op = "snapshot", !.ok = served,
                                         !.http = IF served THEN 200 ELSE 500]
    /\ UNCHANGED <<streaming, capture, last_frame, hstate, releases, alive, gpc,
                   gframe, ghttp, cameraUp>>
    /\ UNCHANGED notRTSP

\* CameraRequestHandler.do_GET, path /stream.mjpg: the unlocked read of
\* stream_state.streaming that decides whether start_stream is called
do_GET_stream(g) ==
    /\ gpc[g] = "idle"
    /\ IF ~streaming
       THEN /\ gpc' = [gpc EXCEPT ![g] = "start"]
            /\ UNCHANGED ghttp
       ELSE /\ gpc' = [gpc EXCEPT ![g] = "check"]
            /\ ghttp' = [ghttp EXCEPT ![g] = 200]
    /\ rtspRet' = NoRet
    /\ UNCHANGED <<streaming, capture, last_frame, hstate, releases, alive,
                   frameSeq, lastCaptured, gframe, cameraUp>>
    /\ UNCHANGED notRTSP

\* CameraRequestHandler.do_GET, path /stream.mjpg: the call of start_stream
\* and the status line that follows it
do_GET_stream_start(g) ==
    /\ gpc[g] = "start"
    /\ \E ok \in BOOLEAN, polls \in {0, 1, OpenAttempts} :
          /\ start_stream(ok, polls)
          /\ rtspRet' = [NoRet EXCEPT !.op = "start", !.ok = ok, !.polls = polls,
                                      !.http = StartStatus(ok)]
          /\ ghttp' = [ghttp EXCEPT ![g] = IF ok THEN 200 ELSE 500]
          /\ gpc' = [gpc EXCEPT ![g] = IF ok THEN "check" ELSE "done"]
    /\ UNCHANGED <<last_frame, frameSeq, lastCaptured, gframe,
                   cameraUp>>
    /\ UNCHANGED notRTSP

\* A mutant of gen_check: the loop does not test the streaming flag.
gen_check_NoStopTest(g) ==
    /\ gpc[g] = "check"
    /\ last_frame # NoFrame
    /\ gframe' = [gframe EXCEPT ![g] = last_frame]
    /\ gpc' = [gpc EXCEPT ![g] = "yield"]
    /\ rtspRet' = NoRet
    /\ UNCHANGED <<streaming, capture, last_frame, hstate, releases, alive,
                   frameSeq, lastCaptured, ghttp, cameraUp>>
    /\ UNCHANGED notRTSP

\* A mutant of gen_check: the loop treats every buffered frame as unusable
\* and continues.
gen_check_Spin(g) ==
    /\ gpc[g] = "check"
    /\ (~streaming \/ capture = 0)
    /\ gpc' = [gpc EXCEPT ![g] = "done"]
    /\ rtspRet' = NoRet
    /\ UNCHANGED <<streaming, capture, last_frame, hstate, releases, alive,
                   frameSeq, lastCaptured, gframe, ghttp, cameraUp>>
    /\ UNCHANGED notRTSP

\* RTSPStream.get_mjpeg_generator: one locked section of the loop.  With an
\* empty buffer (or a failed imencode) the loop continues, which changes
\* nothing.
gen_check(g) ==
    /\ gpc[g] = "check"
    /\ IF ~streaming \/ capture = 0
       THEN \* break: the generator is exhausted, do_GET returns
            /\ gpc' = [gpc EXCEPT ![g] = "done"]
            /\ rtspRet' = NoRet
            /\ UNCHANGED gframe
       ELSE /\ last_frame # NoFrame
            /\ gframe' = [gframe EXCEPT ![g] = last_frame]
            /\ gpc' = [gpc EXCEPT ![g] = "yield"]
            /\ rtspRet' = NoRet
    /\ UNCHANGED <<streaming, capture, last_frame, hstate, releases, alive,
                   frameSeq, lastCaptured, ghttp, cameraUp>>
    /\ UNCHANGED notRTSP

\* RTSPStream.get_mjpeg_generator: the yield, outside the lock, and
\* self.wfile.write(chunk) in do_GET; then the sleep
gen_yield(g) ==
    /\ gpc[g] = "yield"
    /\ gpc' = [gpc EXCEPT ![g] = "check"]
    /\ rtspRet' = NoRet
    /\ UNCHANGED <<streaming, capture, last_frame, hstate, releases, alive,
                   frameSeq, lastCaptured, gframe, ghttp, cameraUp>>
    /\ UNCHANGED notRTSP

\* do_GET, path /stream.mjpg: the client has gone, self.wfile.write raises
\* and the except clause ends the request
gen_disconnect(g) ==
    /\ gpc[g] = "yield"
    /\ gpc' = [gpc EXCEPT ![g] = "done"]
    /\ rtspRet' = NoRet
    /\ UNCHANGED <<streaming, capture, last_frame, hstate, releases, alive,
                   frameSeq, lastCaptured, gframe, ghttp, cameraUp>>
    /\ UNCHANGED notRTSP

\* Environment: the camera stops answering / answers again
CameraDown ==
    /\ cameraUp
    /\ cameraUp' = FALSE
    /\ rtspRet' = NoRet
    /\ UNCHANGED <<streaming, capture, last_frame, hstate, releases, alive,
                   frameSeq, lastCaptured, gpc, gframe, ghttp>>
    /\ UNCHANGED notRTSP

CameraUp ==
    /\ ~cameraUp
    /\ cameraUp' = TRUE
    /\ rtspRet' = NoRet
    /\ UNCHANGED <<streaming, capture, last_frame, hstate, releases, alive,
                   frameSeq, lastCaptured, gpc, gframe, ghttp>>
    /\ UNCHANGED notRTSP

NextRTSP ==
    \/ do_POST_stream_start
    \/ do_POST_stream_stop
    \/ do_GET_snapshot
    \/ \E g \in Gens : do_GET_stream(g)
    \/ \E g \in Gens : do_GET_stream_start(g)
    \/ \E g \in Gens : gen_check(g)
    \/ \E g \in Gens : gen_yield(g)
    \/ \E g \in Gens : gen_disconnect(g)
    \/ update_frames
    \/ CameraDown
    \/ CameraUp

-----------------------------------------------------------------------------
(***************************************************************************)
(* Claims about rtsp_camera/driver.py                                      *)
(***************************************************************************)
\* a step that runs start_stream, from either handler
StartStreamStep == do_POST_stream_start \/ \E g \in Gens : do_GET_stream_start(g)

\* C1: start_stream is idempotent.  A call of start_stream made while a
\* stream is running (the flag is set and the capture handle is open), from
\* POST /stream/start or from GET /stream.mjpg, returns True, opens no
\* capture handle and spawns no _update_frames thread.
C1_StartIdempotent ==
    [][ (StartStreamStep /\ streaming /\ capture # 0 /\ hstate[capture] = "open")
        => /\ rtspRet'.ok = TRUE
           /\ hstate' = hstate
           /\ capture' = capture
           /\ alive' = alive
           /\ streaming' ]_vars

\* C1 witness: start_stream has returned True without polling a new handle,
\* which it does only when it found the stream running.
C1_Witness ==
    /\ rtspRet.op = "start"
    /\ rtspRet.ok /\ rtspRet.polls = 0 /\ rtspRet.http = 200
    /\ streaming /\ capture # 0

\* C2: at most one _update_frames thread is alive while the stream is
\* capturing, in every reachable state.
C2_OneCaptureThread == streaming => alive <= 1

\* C3: last_frame is a single slot holding the most recently captured frame.
\* Every successful read of the capture thread overwrites it; a non-empty
\* buffer holds the last frame read from the capture; a generator or a
\* snapshot taken while streaming is handed that frame, and that frame never
\* goes back in the order of capture, so no reader is handed a frame older
\* than one it was handed before.
C3_SingleSlotLatest ==
    [][ /\ (update_frames /\ frameSeq' # frameSeq
              => last_frame'.seq = frameSeq')
        /\ (last_frame' # NoFrame => last_frame' = lastCaptured')
        /\ \A g \in Gens :
              gframe'[g] # gframe[g]
                 => gframe'[g] = lastCaptured /\ gframe'[g].seq >= gframe[g].seq
        /\ \A frame \in Frames :
              (get_snapshot(frame) /\ do_GET_snapshot /\ streaming /\ capture # 0
                 /\ frame # NoFrame) => frame = lastCaptured'
        /\ lastCaptured'.seq >= lastCaptured.seq ]_vars

\* C3 witness: a generator holds a frame of the stream that overwrote an
\* earlier one, and newer than the one the buffer held when it was emptied.
C3_Witness ==
    \E g \in Gens :
       /\ gframe[g].seq >= 2 /\ gframe[g].h # 0
       /\ gframe[g] = last_frame /\ gpc[g] = "yield"

\* C4 as claimed: once streaming is False no generator emits a further chunk.
C4_NoChunkAfterStop ==
    [][ ~streaming => ~(\E g \in Gens : gen_yield(g)) ]_vars

\* C4 as amended: once streaming is False and no new start follows, a
\* generator builds no new chunk (it emits at most the chunk it had already
\* built when the stream stopped) and its loop terminates.
C4_GeneratorStops ==
    /\ [][ \A g \in Gens :
             (~streaming /\ gpc[g] # "yield") => gpc'[g] # "yield" ]_vars
    /\ \A g \in Gens :
          [](~streaming /\ gpc[g] \in {"check", "yield"}
               => <>(streaming \/ gpc[g] = "done"))

\* C4 witness: a request that was streaming chunks has ended after the
\* stream stopped.
C4_Witness ==
    \E g \in Gens :
       gpc[g] = "done" /\ ghttp[g] = 200 /\ gframe[g] # NoFrame /\ ~streaming

\* C17: get_mjpeg_generator makes progress.  Under fair scheduling of the
\* generator and of the capture thread, a generator that is in its loop
\* eventually emits a chunk (or ends), unless the stream stops, the camera
\* stops delivering frames, or the camera has delivered its last frame of the
\* model before the capture thread stored one.
C17_GeneratorProgress ==
    \A g \in Gens :
       [](gpc[g] = "check"
            => <>(\/ gpc[g] \in {"yield", "done"}
                  \/ ~streaming \/ capture = 0
                  \/ ~cameraUp
                  \/ (frameSeq = MaxFrames /\ last_frame = NoFrame)))

\* C17 witness: the stream running, a generator holds the chunk it built from
\* the first frame the capture thread stored.
C17_Witness ==
    \E g \in Gens :
       /\ gpc[g] = "yield" /\ ghttp[g] = 200
       /\ streaming /\ capture # 0 /\ cameraUp /\ alive = 1
       /\ gframe[g] = last_frame /\ last_frame.seq = 1 /\ last_frame.h = capture

\* C5: when the camera is unreachable, so that the capture handle
\* start_stream creates never reports opened, start_stream returns False
\* after OpenAttempts polls, leaves streaming False and capture None, spawns
\* no thread, and the calling handler answers 500 and ends.
C5_UnreachableCamera ==
    [][ (StartStreamStep /\ ~cameraUp /\ ~(streaming /\ capture # 0))
        => /\ rtspRet'.ok = FALSE
           /\ rtspRet'.polls = OpenAttempts
           /\ rtspRet'.http = 500
           /\ ~streaming' /\ capture' = 0
           /\ alive' = alive
           /\ \A g \in Gens :
                 do_GET_stream_start(g) => ghttp'[g] = 500 /\ gpc'[g] = "done" ]_vars

\* C5 witness: a start has failed after all its polls and was answered 500.
C5_Witness ==
    /\ rtspRet.op = "start"
    /\ rtspRet.http = 500 /\ rtspRet.polls = OpenAttempts /\ ~rtspRet.ok
    /\ ~streaming /\ capture = 0

\* C6: stop_stream is idempotent.  From every reachable state, stopping twice
\* gives the state stopping once gives, which has streaming False, capture
\* None and last_frame None; and no capture handle is released twice.
C6_StopIdempotent ==
    LET once == StopResult(StreamState) IN
    /\ StopResult(once) = once
    /\ once.streaming = FALSE /\ once.capture = 0 /\ once.last_frame = NoFrame
    /\ \A h \in Handles : releases[h] <= 1

\* C6 witness: stop_stream has just released the handle of a running stream.
C6_Witness ==
    /\ rtspRet.op = "stop" /\ rtspRet.http = 200
    /\ ~streaming /\ capture = 0 /\ last_frame = NoFrame
    /\ \E h \in Handles : releases[h] = 1 /\ frameSeq >= 1

\* C30: every frame served while a stream is running, by get_mjpeg_generator
\* or by get_snapshot, was read from the capture handle that is open at that
\* time: a frame captured before the most recent stop_stream or read-failure
\* shutdown is never served after a later start_stream.
C30_ServedFromOpenHandle ==
    [][ /\ \A g \in Gens :
              (gen_check(g) /\ gpc'[g] = "yield") => gframe'[g].h = capture
        /\ \A frame \in Frames :
              (get_snapshot(frame) /\ do_GET_snapshot /\ streaming /\ capture # 0
                 /\ frame # NoFrame) => frame.h = capture ]_vars

-----------------------------------------------------------------------------
(***************************************************************************)
(* ba_cnet_based_hvac_controller/driver.py                                 *)
(***************************************************************************)
\* SENSOR_POINTS, by readable name, in list order
SENSOR_POINTS == <<"temperature", "humidity", "co2", "setpoint">>
SensorNames == {SENSOR_POINTS[i] : i \in 1..Len(SENSOR_POINTS)}

\* What one BACnetClient.read_property call meets:
\*   "value"    a ReadPropertyACK with a propertyValue arrives
\*   "ioError"  the callback reports iocb.ioError
\*   "timeout"  no callback within the 5 s of _wait_for_response
\*   "noValue"  a response without propertyValue arrives
ReadOutcomes == {"value", "ioError", "timeout", "noValue"}
\* the outcomes a device that cannot be reached leaves
UnreachableOutcomes == {"ioError", "timeout"}

\* BACnetClient._request_io: the response it returns, or that it raises
request_io(outcome) ==
    CASE outcome = "value"   -> [raised |-> FALSE, response |-> "ack"]
      [] outcome = "ioError" -> [raised |-> TRUE,  response |-> "none"]
      [] outcome = "timeout" -> [raised |-> FALSE, response |-> "none"]
      [] outcome = "noValue" -> [raised |-> FALSE, response |-> "other"]

\* BACnetClient.read_property: the value it returns, or the exception it
\* raises
read_property(outcome) ==
    LET r == request_io(outcome) IN
    IF r.raised THEN [raised |-> TRUE, value |-> "ioError"]
    ELSE IF r.response = "ack" THEN [raised |-> FALSE, value |-> "value"]
    ELSE [raised |-> TRUE, value |-> "No property value returned"]

\* api_data, the inner try of the loop: the entry stored for one point
DataEntry(outcome) ==
    LET r == read_property(outcome) IN
    IF r.raised THEN "error: " \o r.value ELSE r.value

\* api_data: the status of a request whose client was built
DataStatus(results) == 200

InitBB ==
    /\ bbDevUp = TRUE
    /\ bbResults = [n \in SensorNames |-> "unset"]
    /\ bbStatus = 0

\* GET /api/data, the whole handler.  clientOk: get_bacnet_client() returned
\* (it is called outside the try, a failure to build the client is answered
\* by Flask with 500).  outcomes: what each read meets.
api_data ==
    \E clientOk \in BOOLEAN,
       outcomes \in [SensorNames -> ReadOutcomes] :
       /\ ~bbDevUp => \A n \in SensorNames : outcomes[n] \in UnreachableOutcomes
       /\ IF clientOk
          THEN /\ bbResults' = [n \in SensorNames |-> DataEntry(outcomes[n])]
               /\ bbStatus' = DataStatus(bbResults')
          ELSE /\ bbResults' = [n \in SensorNames |-> "unset"]
               /\ bbStatus' = 500
       /\ UNCHANGED bbDevUp
       /\ UNCHANGED notBB

\* Environment: the BACnet device becomes unreachable / reachable
BBDeviceDown ==
    /\ bbDevUp /\ bbDevUp' = FALSE
    /\ UNCHANGED <<bbResults, bbStatus>>
    /\ UNCHANGED notBB

BBDeviceUp ==
    /\ ~bbDevUp /\ bbDevUp' = TRUE
    /\ UNCHANGED <<bbResults, bbStatus>>
    /\ UNCHANGED notBB

NextBB == api_data \/ BBDeviceDown \/ BBDeviceUp

(***************************************************************************)
(* Claims about ba_cnet_based_hvac_controller/driver.py                    *)
(***************************************************************************)
\* every read of the last GET /api/data raised: the device was unreachable
AllReadsFailed ==
    \A n \in SensorNames :
       bbResults[n] \in {"error: ioError", "error: No property value returned"}

\* C7: when the BACnet device is unreachable, so that every read_property of
\* a GET /api/data raises or times out, the request is answered with a 5xx
\* status.
C7_UnreachableData5xx == AllReadsFailed => bbStatus \in 500..599


-----------------------------------------------------------------------------
(***************************************************************************)
(* hikvision_decoder/driver.py                                             *)
(***************************************************************************)
\* _parse_instruction_config: the instructions built from the static API
\* info, and the HTTP method of each
Instructions == {"manage", "config", "status", "decode"}
InstrMethod(i) == IF i = "status" THEN "GET" ELSE "POST"

\* status codes the decoder answers with when it answers at all
DevCodes == {200, 401, 500}

\* a result that is an {"error": ...} dict
HikError == 0

NoHikResp == [route |-> "none", code |-> 0, body |-> HikError,
              valid |-> FALSE, down |-> FALSE]

\* DeviceShifuDriver.__init__
InitHik ==
    /\ hkPhase = "boot"
    /\ hkConnector = "none"
    /\ hkConnected = FALSE
    /\ hkLatest = [i \in Instructions |-> 0]
    /\ hkDevConn = "unknown"
    /\ hkDevUp = TRUE
    /\ hkDevData = 1
    /\ hkResp = NoHikResp
    /\ hkLast200 = [i \in Instructions |-> 0]

\* HikvisionDecoderConnector.connect: the GET of "/" raises when the decoder
\* is unreachable, else the decoder answers with code
connect(code) == hkDevUp /\ code \in {200, 401, 403}

\* DeviceShifuDriver.connect_device (DEVICE_ADDRESS is set): its return
\* value ok and the fields it writes
connect_device(code) ==
    LET ok == connect(code) IN
    [ok |-> ok, connector |-> "obj", connected |-> ok,
     devConn |-> IF ok THEN "connected" ELSE "unavailable"]

\* handle_device_request, after the connection test: the HTTP code for a
\* device call that raised requests.exceptions.RequestException (504) or was
\* answered with ans
DeviceCallCode(devUp, ans) == IF devUp THEN ans ELSE 504

\* DeviceShifuDriver.handle_device_request for instruction i called with its
\* own method: the (result, code) it returns and the fields it writes.
\* connCode and ans are the decoder's answers to the connection test and to
\* the device call, if it answers.
handle_device_request(i, connCode, ans) ==
    LET reconnect == hkConnector = "none" \/ ~hkConnected
        c == connect_device(connCode)
    IN  IF reconnect /\ ~c.ok
        THEN [result |-> HikError, code |-> 503, connector |-> c.connector,
              connected |-> c.connected, devConn |-> c.devConn]
        ELSE LET code == DeviceCallCode(hkDevUp, ans) IN
             [result |-> IF code = 200 THEN hkDevData ELSE HikError,
              code |-> code,
              connector |-> "obj",
              connected |-> TRUE,
              devConn |-> IF ~hkDevUp THEN "error"
                          ELSE IF reconnect THEN c.devConn ELSE hkDevConn]

\* DeviceShifuDriver.run: connect_device, then the threads and the server
hik_run ==
    /\ hkPhase = "boot"
    /\ hkPhase' = "serving"
    /\ \E code \in DevCodes :
          LET c == connect_device(code) IN
          /\ hkConnector' = c.connector
          /\ hkConnected' = c.connected
          /\ hkDevConn' = c.devConn
    /\ UNCHANGED <<hkLatest, hkLast200, hkDevUp, hkDevData, hkResp>>
    /\ UNCHANGED notHik

\* the view driver_status, registered for GET /status
driver_status ==
    /\ hkPhase = "serving"
    /\ hkResp' = [route |-> "driver_status", code |-> 200,
                  body |-> hkLatest["status"], valid |-> TRUE,
                  down |-> ~hkDevUp]
    /\ UNCHANGED <<hkPhase, hkConnector, hkConnected, hkLatest, hkLast200, hkDevConn,
                   hkDevUp, hkDevData>>
    /\ UNCHANGED notHik

\* A mutant of CacheWrite: the result is stored whatever the code.
CacheWrite_Always(cache, i, r) == [cache EXCEPT ![i] = r.result]

\* "if code == 200: with self.data_lock: self.latest_data[instruction] =
\* result", for the (result, code) r that handle_device_request returned
CacheWrite(cache, i, r) ==
    IF r.code = 200 THEN [cache EXCEPT ![i] = r.result] ELSE cache

\* the history of the device requests: r is what handle_device_request
\* returned for instruction i
RecordCall(i, r) ==
    hkLast200' = IF r.code = 200 THEN [hkLast200 EXCEPT ![i] = r.result]
                 ELSE hkLast200

\* _make_get_handler / _make_post_handler, after the cache test and the
\* validation: the device request, the cache write on 200, the response
forward_request(i) ==
    \E connCode \in DevCodes, ans \in DevCodes :
       LET r == handle_device_request(i, connCode, ans) IN
       /\ hkConnector' = r.connector
       /\ hkConnected' = r.connected
       /\ hkDevConn' = r.devConn
       /\ hkLatest' = CacheWrite(hkLatest, i, r)
       /\ RecordCall(i, r)
       /\ hkResp' = [route |-> i, code |-> r.code, body |-> r.result,
                     valid |-> TRUE, down |-> ~hkDevUp]

\* _make_get_handler(i): the handler of a GET instruction route.  For
\* "status" it is registered for GET /status as well, after driver_status.
get_handler(i) ==
    /\ hkPhase = "serving"
    /\ InstrMethod(i) = "GET"
    /\ IF hkLatest[i] # 0
       THEN \* serving cached data
            /\ hkResp' = [route |-> i, code |-> 200, body |-> hkLatest[i],
                          valid |-> TRUE, down |-> ~hkDevUp]
            /\ UNCHANGED <<hkConnector, hkConnected, hkLatest, hkLast200, hkDevConn>>
       ELSE forward_request(i)
    /\ UNCHANGED <<hkPhase, hkDevUp, hkDevData>>
    /\ UNCHANGED notHik

\* _make_post_handler(i): the handler of a POST instruction route.  valid:
\* the body is JSON and holds the required parameters of the instruction.
post_handler(i, valid) ==
    /\ hkPhase = "serving"
    /\ InstrMethod(i) = "POST"
    /\ IF ~valid
       THEN /\ hkResp' = [route |-> i, code |-> 400, body |-> HikError,
                          valid |-> FALSE, down |-> ~hkDevUp]
            /\ UNCHANGED <<hkConnector, hkConnected, hkLatest, hkLast200, hkDevConn>>
       ELSE forward_request(i)
    /\ UNCHANGED <<hkPhase, hkDevUp, hkDevData>>
    /\ UNCHANGED notHik

\* DeviceShifuDriver.background_status_refresh: one iteration
background_status_refresh ==
    /\ hkPhase = "serving"
    /\ \E connCode \in DevCodes, ans \in DevCodes :
          LET r == handle_device_request("status", connCode, ans) IN
          /\ hkConnector' = r.connector
          /\ hkConnected' = r.connected
          /\ hkLatest' = CacheWrite(hkLatest, "status", r)
          /\ RecordCall("status", r)
          /\ hkDevConn' = IF r.code = 200 THEN "connected" ELSE "unavailable"
    /\ UNCHANGED <<hkPhase, hkDevUp, hkDevData, hkResp>>
    /\ UNCHANGED notHik

\* DeviceShifuDriver.connection_monitor: one iteration
connection_monitor ==
    /\ hkPhase = "serving"
    /\ hkConnector # "none"
    /\ \E code \in DevCodes :
          /\ hkConnected' = connect(code)
          /\ hkDevConn' = IF connect(code) THEN "connected" ELSE "unavailable"
    /\ UNCHANGED <<hkPhase, hkConnector, hkLatest, hkLast200, hkDevUp, hkDevData, hkResp>>
    /\ UNCHANGED notHik

\* Environment: the decoder becomes unreachable / reachable, or its data
\* change
HikDeviceDown ==
    /\ hkDevUp /\ hkDevUp' = FALSE
    /\ UNCHANGED <<hkPhase, hkConnector, hkConnected, hkLatest, hkLast200, hkDevConn,
                   hkDevData, hkResp>>
    /\ UNCHANGED notHik

HikDeviceUp ==
    /\ ~hkDevUp /\ hkDevUp' = TRUE
    /\ UNCHANGED <<hkPhase, hkConnector, hkConnected, hkLatest, hkLast200, hkDevConn,
                   hkDevData, hkResp>>
    /\ UNCHANGED notHik

HikDeviceChange ==
    /\ hkDevData < MaxHikData
    /\ hkDevData' = hkDevData + 1
    /\ UNCHANGED <<hkPhase, hkConnector, hkConnected, hkLatest, hkLast200, hkDevConn,
                   hkDevUp, hkResp>>
    /\ UNCHANGED notHik

NextHik ==
    \/ hik_run
    \/ driver_status
    \/ \E i \in Instructions : get_handler(i)
    \/ \E i \in Instructions, valid \in BOOLEAN : post_handler(i, valid)
    \/ background_status_refresh
    \/ connection_monitor
    \/ HikDeviceDown
    \/ HikDeviceUp
    \/ HikDeviceChange

(***************************************************************************)
(* Claims about hikvision_decoder/driver.py                                *)
(***************************************************************************)
\* C8: whenever the decoder is unreachable, every instruction route (GET
\* /status, POST /manage, /config, /decode) answers a request that passes
\* validation with a 5xx status.
C8_UnreachableDecoder5xx ==
    (hkResp.route \in Instructions /\ hkResp.valid /\ hkResp.down)
       => hkResp.code \in 500..599

\* a result that handle_device_request can return with code 200 for
\* instruction i in the current state
Returned200(i) ==
    {r.result : r \in {x \in {handle_device_request(i, connCode, ans) :
                                  connCode \in DevCodes, ans \in DevCodes} :
                          x.code = 200}}

\* a step in which a request for instruction i was forwarded to the decoder
\* and did not come back with code 200
FailedCall(i) ==
    \/ /\ get_handler(i) \/ post_handler(i, TRUE)
       /\ hkResp'.route = i
       /\ hkResp'.code # 200
    \/ /\ i = "status"
       /\ background_status_refresh
       /\ hkDevConn' # "connected"

-----------------------------------------------------------------------------
(***************************************************************************)
(* wheeltec_ros_robot/driver.py                                            *)
(***************************************************************************)
Sensors == {"odom", "imu", "scan"}

NoRosResp == [sensor |-> "none", code |-> 0, body |-> 0, down |-> FALSE]

\* the module-level state and ROS2Bridge.__init__
InitRos ==
    /\ rosBridge = "starting"
    /\ rosMsg = [s \in Sensors |-> 0]
    /\ rosEvent = [s \in Sensors |-> FALSE]
    /\ rosPublishing = TRUE
    /\ rosSeq = 0
    /\ rosResp = NoRosResp

\* ros2_spin_thread: rclpy.init and ROS2Bridge() succeed, or raise and leave
\* ros_bridge None; either way ros_bridge_ready is set
ros2_spin_thread ==
    /\ rosBridge = "starting"
    /\ rosBridge' \in {"node", "none"}
    /\ UNCHANGED <<rosMsg, rosEvent, rosPublishing, rosSeq, rosResp>>
    /\ UNCHANGED notRos

\* ROS2Bridge.odom_callback / imu_callback / scan_callback: a message of the
\* robot arrives
ros_callback(s) ==
    /\ rosBridge = "node"
    /\ rosPublishing
    /\ rosSeq < MaxRosMsgs
    /\ rosSeq' = rosSeq + 1
    /\ rosMsg' = [rosMsg EXCEPT ![s] = rosSeq + 1]
    /\ rosEvent' = [rosEvent EXCEPT ![s] = TRUE]
    /\ UNCHANGED <<rosBridge, rosPublishing, rosResp>>
    /\ UNCHANGED notRos

\* the robot is unreachable: no ROS node, or the robot publishes nothing
RobotUnreachable == rosBridge # "node" \/ ~rosPublishing

\* GET /sensors/odom, /sensors/imu, /sensors/scan: the whole handler, with
\* ROS2Bridge.get_odom / get_imu / get_scan.  The server answers requests
\* once startup_event has seen ros_bridge_ready.  arrives: a message comes in
\* during event.wait(timeout).
get_sensor(s) ==
    /\ rosBridge # "starting"
    /\ IF rosBridge # "node"
       THEN /\ rosResp' = [sensor |-> s, code |-> 503, body |-> 0,
                           down |-> RobotUnreachable]
            /\ UNCHANGED <<rosMsg, rosEvent, rosSeq>>
       ELSE IF rosMsg[s] # 0
       THEN \* the event is cleared, the stored message is returned
            /\ rosEvent' = [rosEvent EXCEPT ![s] = FALSE]
            /\ rosResp' = [sensor |-> s, code |-> 200, body |-> rosMsg[s],
                           down |-> RobotUnreachable]
            /\ UNCHANGED <<rosMsg, rosSeq>>
       ELSE \E arrives \in BOOLEAN :
               IF arrives
               THEN /\ rosPublishing /\ rosSeq < MaxRosMsgs
                    /\ rosSeq' = rosSeq + 1
                    /\ rosMsg' = [rosMsg EXCEPT ![s] = rosSeq + 1]
                    /\ rosEvent' = [rosEvent EXCEPT ![s] = TRUE]
                    /\ rosResp' = [sensor |-> s, code |-> 200,
                                   body |-> rosSeq + 1,
                                   down |-> RobotUnreachable]
               ELSE /\ rosEvent' = [rosEvent EXCEPT ![s] = FALSE]
                    /\ rosResp' = [sensor |-> s, code |-> 504, body |-> 0,
                                   down |-> RobotUnreachable]
                    /\ UNCHANGED <<rosMsg, rosSeq>>
    /\ UNCHANGED <<rosBridge, rosPublishing>>
    /\ UNCHANGED notRos

\* Environment: the robot stops / resumes publishing
RobotStop ==
    /\ rosPublishing /\ rosPublishing' = FALSE
    /\ UNCHANGED <<rosBridge, rosMsg, rosEvent, rosSeq, rosResp>>
    /\ UNCHANGED notRos

RobotStart ==
    /\ ~rosPublishing /\ rosPublishing' = TRUE
    /\ UNCHANGED <<rosBridge, rosMsg, rosEvent, rosSeq, rosResp>>
    /\ UNCHANGED notRos

NextRos ==
    \/ ros2_spin_thread
    \/ \E s \in Sensors : ros_callback(s)
    \/ \E s \in Sensors : get_sensor(s)
    \/ RobotStop
    \/ RobotStart

(***************************************************************************)
(* Claims about wheeltec_ros_robot/driver.py                               *)
(***************************************************************************)
\* C9: when the robot is unreachable (no ROS node, or the robot has stopped
\* publishing), GET /sensors/odom, /sensors/imu and /sensors/scan answer 503
\* or 504.
C9_UnreachableRobot5xx ==
    (rosResp.sensor \in Sensors /\ rosResp.down) => rosResp.code \in {503, 504}

-----------------------------------------------------------------------------
(***************************************************************************)
(* wheeltecros机器人/driver.py                                             *)
(***************************************************************************)
\* the publish APIs that take the request body, and stop, which takes none
MoveApis == {"move/forward", "move/backward", "turn/left", "turn/right"}
CarApis  == MoveApis \cup {"stop"}

CarKeys == 1..NumCarKeys
\* a JSON object over CarKeys: key k is absent when d[k] = 0
CarDicts == [CarKeys -> 0..MaxCarVal]
EmptyDict == [k \in CarKeys |-> 0]

\* what the body of a POST is:
\*   "dict"      a JSON object
\*   "nondict"   well-formed JSON that is a non-empty list, a non-zero number
\*               or a non-empty string
\*   "empty"     no body (Content-Length 0), or JSON that is falsy
\*   "malformed" not JSON
BodyKinds == {"dict", "nondict", "empty", "malformed"}

NoCarResp == [api |-> "none", kind |-> "empty", body |-> EmptyDict,
              code |-> 0, pubs |-> <<>>]

\* prefix = "deviceshifu-car-mqtt" and the topic of an API
Topic(api) == "deviceshifu-car-mqtt/" \o api

InitCar ==
    /\ carPhase = "boot"
    /\ carCfg = [a \in CarApis |-> EmptyDict]
    /\ carResp = NoCarResp

\* main: the instruction config is loaded, the broker connection is made (or
\* the process exits), the HTTP server starts
car_main ==
    /\ carPhase = "boot"
    /\ \/ /\ carPhase' = "serving"
          /\ carCfg' \in [CarApis -> CarDicts]
       \/ /\ carPhase' = "exited"
          /\ UNCHANGED carCfg
    /\ UNCHANGED carResp
    /\ UNCHANGED notCar

\* DeviceShifuAPI._get_settings
get_settings(api) == carCfg[api]

\* dict.update: the keys of settings replace those of payload
DictUpdate(payload, settings) ==
    [k \in CarKeys |-> IF settings[k] # 0 THEN settings[k] ELSE payload[k]]

\* Handler._parse_json followed by "json_payload or {}"
ParsedPayload(kind, body) == IF kind = "dict" THEN body ELSE EmptyDict

\* Handler.do_POST with DeviceShifuAPI.move_forward / move_backward /
\* turn_left / turn_right / stop: the whole handler
car_do_POST(api, kind, body) ==
    /\ carPhase = "serving"
    /\ kind # "dict" => body = EmptyDict
    /\ IF api \in MoveApis /\ kind = "nondict"
       THEN \* payload.update raises AttributeError: send_error(500)
            carResp' = [api |-> api, kind |-> kind, body |-> body,
                        code |-> 500, pubs |-> <<>>]
       ELSE LET payload == IF api = "stop" THEN get_settings(api)
                           ELSE DictUpdate(ParsedPayload(kind, body),
                                           get_settings(api))
            IN carResp' = [api |-> api, kind |-> kind, body |-> body,
                           code |-> 200,
                           pubs |-> <<[topic |-> Topic(api),
                                       payload |-> payload]>>]
    /\ UNCHANGED <<carPhase, carCfg>>
    /\ UNCHANGED notCar

NextCar ==
    \/ car_main
    \/ \E api \in CarApis, kind \in BodyKinds, body \in CarDicts :
          car_do_POST(api, kind, body)

(***************************************************************************)
(* Claims about wheeltecros机器人/driver.py                                *)
(***************************************************************************)
\* C10: a POST to /move/forward, /move/backward, /turn/left or /turn/right
\* with a JSON object as body publishes exactly one MQTT message, on the
\* topic of that API, whose payload carries every key of the body with the
\* value the client sent.
C10_BodyForwarded ==
    (carResp.api \in MoveApis /\ carResp.kind = "dict")
       => /\ Len(carResp.pubs) = 1
          /\ carResp.pubs[1].topic = Topic(carResp.api)
          /\ \A k \in CarKeys :
                carResp.body[k] # 0
                   => carResp.pubs[1].payload[k] = carResp.body[k]

-----------------------------------------------------------------------------
(***************************************************************************)
(* wheeltecros机器人/driver.py : the subscribe APIs                         *)
(***************************************************************************)
\* the topics of get_odom .. get_status, without the prefix
SubTopics == {"odom", "scan", "joint_states", "point_cloud", "status"}

\* a Queue is the sequence of its payloads, oldest first; messages are
\* numbered in the order the broker delivers them
CarMsgs == 1..MaxCarMsgs

NoGetResp == [topic |-> "none", code |-> 0, body |-> 0, latest |-> 0]

\* MQTTDriver.__init__: no subscriptions
InitCarSub ==
    /\ sub_queues = [t \in SubTopics |-> "unsub"]
    /\ carLatest = [t \in SubTopics |-> 0]
    /\ carMsgSeq = 0
    /\ carGetResp = NoGetResp

\* MQTTDriver._on_message: the payload is put at the tail of the topic's
\* queue when the topic has one
car_on_message(t) ==
    /\ carMsgSeq < MaxCarMsgs
    /\ carMsgSeq' = carMsgSeq + 1
    /\ IF sub_queues[t] # "unsub"
       THEN /\ sub_queues' = [sub_queues EXCEPT ![t] = Append(@, carMsgSeq + 1)]
            /\ carLatest' = [carLatest EXCEPT ![t] = carMsgSeq + 1]
       ELSE UNCHANGED <<sub_queues, carLatest>>
    /\ UNCHANGED carGetResp
    /\ UNCHANGED notCarSub

\* MQTTDriver.subscribe: the queues after the call
subscribe(queues, t) ==
    IF queues[t] = "unsub" THEN [queues EXCEPT ![t] = <<>>] ELSE queues

\* Queue.get on a non-empty queue: the payload taken and the queue left
QueueGet(q) == [msg |-> Head(q), rest |-> Tail(q)]

\* Handler.do_GET with DeviceShifuAPI.get_odom .. get_status and
\* MQTTDriver.get_message: the whole handler.  arrives: a message of the
\* topic is delivered during Queue.get(timeout).
car_do_GET(t) ==
    LET queues == subscribe(sub_queues, t) IN
    /\ IF queues[t] # <<>>
       THEN LET g == QueueGet(queues[t]) IN
            /\ sub_queues' = [queues EXCEPT ![t] = g.rest]
            /\ carGetResp' = [topic |-> t, code |-> 200, body |-> g.msg,
                              latest |-> carLatest[t]]
            /\ UNCHANGED <<carLatest, carMsgSeq>>
       ELSE \E arrives \in BOOLEAN :
               IF arrives
               THEN /\ carMsgSeq < MaxCarMsgs
                    /\ carMsgSeq' = carMsgSeq + 1
                    /\ carLatest' = [carLatest EXCEPT ![t] = carMsgSeq + 1]
                    /\ sub_queues' = queues
                    /\ carGetResp' = [topic |-> t, code |-> 200,
                                      body |-> carMsgSeq + 1,
                                      latest |-> carMsgSeq + 1]
               ELSE \* Empty: None, answered as {}
                    /\ sub_queues' = queues
                    /\ carGetResp' = [topic |-> t, code |-> 200, body |-> 0,
                                      latest |-> carLatest[t]]
                    /\ UNCHANGED <<carLatest, carMsgSeq>>
    /\ UNCHANGED notCarSub

NextCarSub ==
    \/ \E t \in SubTopics : car_on_message(t)
    \/ \E t \in SubTopics : car_do_GET(t)

(***************************************************************************)
(* Claims about the subscribe APIs of wheeltecros机器人/driver.py           *)
(***************************************************************************)
\* C11: a GET of /odom, /scan, /joint_states, /point_cloud or /status that
\* returns a message returns the most recent message received on that topic.
C11_GetReturnsLatest ==
    (carGetResp.topic \in SubTopics /\ carGetResp.body # 0)
       => carGetResp.body = carGetResp.latest

-----------------------------------------------------------------------------
(***************************************************************************)
(* ba_cnet_hvac_room_controller/driver.py                                  *)
(***************************************************************************)
\* the indexes api_control accepts
SetpointIndexes == {1, 2, 3}
\* what a body may give as setpoint_index (0: the field is absent): the
\* accepted indexes and one that is not
IndexInputs == 0..4
\* what a body may give as setpoint_value (0: the field is absent)
ValueInputs == 0..MaxSetVal
\* what a body may give as out_of_service
OosInputs == {"absent", "true", "false"}

NoRcResp == [op |-> "none", idx |-> 0, val |-> 0, oos |-> "absent", code |-> 0]

\* the module-level BACnet objects
InitRC ==
    /\ active_setpoint = 1
    /\ setpoints = [i \in SetpointIndexes |-> 0]
    /\ outOfService = FALSE
    /\ rcResp = NoRcResp

\* api_control: the setpoints after the second if of the handler
ApplyValue(sp, idx, val) ==
    IF val # 0 /\ idx # 0 THEN [sp EXCEPT ![idx] = val] ELSE sp

\* POST /api/control, the whole handler, for a body pydantic accepts as a
\* ControlCommand
api_control(idx, val, oos) ==
    /\ IF idx # 0 /\ idx \notin SetpointIndexes
       THEN \* HTTPException 400, raised before anything is written
            /\ rcResp' = [op |-> "control", idx |-> idx, val |-> val,
                          oos |-> oos, code |-> 400]
            /\ UNCHANGED <<active_setpoint, setpoints, outOfService>>
       ELSE /\ active_setpoint' = IF idx # 0 THEN idx ELSE active_setpoint
            /\ setpoints' = ApplyValue(setpoints, idx, val)
            /\ outOfService' = IF oos = "absent" THEN outOfService
                               ELSE oos = "true"
            /\ rcResp' = [op |-> "control", idx |-> idx, val |-> val,
                          oos |-> oos, code |-> 200]
    /\ UNCHANGED notRC

\* POST /api/control with a body pydantic rejects: 422, the handler is not
\* called
api_control_invalid ==
    /\ rcResp' = [NoRcResp EXCEPT !.op = "control", !.code = 422]
    /\ UNCHANGED <<active_setpoint, setpoints, outOfService>>
    /\ UNCHANGED notRC

\* GET /api/status
api_status ==
    /\ rcResp' = [op |-> "status", idx |-> active_setpoint,
                  val |-> setpoints[active_setpoint],
                  oos |-> IF outOfService THEN "true" ELSE "false",
                  code |-> 200]
    /\ UNCHANGED <<active_setpoint, setpoints, outOfService>>
    /\ UNCHANGED notRC

NextRC ==
    \/ \E idx \in IndexInputs, val \in ValueInputs, oos \in OosInputs :
          api_control(idx, val, oos)
    \/ api_control_invalid
    \/ api_status

(***************************************************************************)
(* Claims about ba_cnet_hvac_room_controller/driver.py                     *)
(***************************************************************************)
\* C12: when POST /api/control answers {"status": "ok"}, every field the
\* body supplied has taken effect: the active setpoint is the given index,
\* the given value is the value of the active setpoint, out_of_service is
\* the given flag.
C12_ControlTakesEffect ==
    (rcResp.op = "control" /\ rcResp.code = 200)
       => /\ rcResp.idx # 0 => active_setpoint = rcResp.idx
          /\ rcResp.val # 0 => setpoints[active_setpoint] = rcResp.val
          /\ rcResp.oos # "absent" => outOfService = (rcResp.oos = "true")

-----------------------------------------------------------------------------
(***************************************************************************)
(* ba_cnet_based_hvac_controller/driver.py : POST /api/control             *)
(***************************************************************************)
\* CONTROL_POINTS, in list order
CONTROL_POINTS ==
    << [obj_type |-> "analogValue", instance |-> 1, prop |-> "presentValue",
        name |-> "setpoint"],
       [obj_type |-> "binaryValue", instance |-> 1, prop |-> "presentValue",
        name |-> "fan"] >>
ControlNames == {CONTROL_POINTS[i].name : i \in 1..Len(CONTROL_POINTS)}

\* a body is a JSON object: per control point the value under its key, or
\* Absent when it has no such key
Absent == -1
CtlValues == 0..MaxCtlVal
Payloads == [ControlNames -> CtlValues \cup {Absent}]

\* What one BACnetClient.write_property call meets:
\*   "ack"      a SimpleAckPDU arrives
\*   "errorPdu" an Error arrives as ioResponse
\*   "ioError"  the callback reports iocb.ioError
\*   "timeout"  no callback within the 5 s of _wait_for_response
\*   "other"    another response arrives
WriteOutcomes == {"ack", "errorPdu", "ioError", "timeout", "other"}

\* BACnetClient._request_io for a write request
write_request_io(outcome) ==
    CASE outcome = "ack"      -> [raised |-> FALSE, response |-> "SimpleAckPDU"]
      [] outcome = "errorPdu" -> [raised |-> FALSE, response |-> "Error"]
      [] outcome = "ioError"  -> [raised |-> TRUE,  response |-> "none"]
      [] outcome = "timeout"  -> [raised |-> FALSE, response |-> "none"]
      [] outcome = "other"    -> [raised |-> FALSE, response |-> "other"]

\* BACnetClient.write_property: it raises, or returns True or False
write_property(outcome) ==
    LET r == write_request_io(outcome) IN
    IF r.raised THEN [raised |-> TRUE, ret |-> FALSE]
    ELSE IF r.response = "SimpleAckPDU" THEN [raised |-> FALSE, ret |-> TRUE]
    ELSE IF r.response = "Error" THEN [raised |-> TRUE, ret |-> FALSE]
    ELSE [raised |-> FALSE, ret |-> FALSE]

\* A mutant of Named: the test "name in payload" is dropped.
Named_Always(payload, name) == TRUE

\* api_control: if name in payload
Named(payload, name) == payload[name] # Absent

\* api_control: the arguments of the write_property call for a point
WriteCall(point, payload) ==
    [obj_type |-> point.obj_type, instance |-> point.instance,
     prop |-> point.prop, value |-> payload[point.name]]

\* api_control: the entry stored for a point whose write was made; the value
\* write_property returns is not looked at
ControlEntry(outcome) ==
    IF write_property(outcome).raised THEN "error" ELSE "ok"

\* api_control: the loop over CONTROL_POINTS from the i-th point on, given
\* the calls made and the entries stored so far
RECURSIVE ControlLoop(_, _, _, _, _)
ControlLoop(i, payload, outcomes, writes, result) ==
    IF i > Len(CONTROL_POINTS) THEN [writes |-> writes, result |-> result]
    ELSE LET point == CONTROL_POINTS[i] IN
         IF Named(payload, point.name)
         THEN ControlLoop(i + 1, payload, outcomes,
                          Append(writes, WriteCall(point, payload)),
                          [result EXCEPT ![point.name] =
                              ControlEntry(outcomes[point.name])])
         ELSE ControlLoop(i + 1, payload, outcomes, writes, result)

NoCtlResult == [n \in ControlNames |-> "absent"]
NoOutcomes  == [n \in ControlNames |-> "none"]

InitBBCtl ==
    /\ bbPayload = [n \in ControlNames |-> Absent]
    /\ bbWrites = <<>>
    /\ bbCtlOutcomes = NoOutcomes
    /\ bbCtlResult = NoCtlResult
    /\ bbCtlStatus = 0

\* POST /api/control, the whole handler.  parsed: request.get_json returned
\* (else Flask answers 400); clientOk: get_bacnet_client() returned (else
\* Flask answers 500); outcomes: what each write meets.
bb_api_control ==
    \E parsed \in BOOLEAN, clientOk \in BOOLEAN, payload \in Payloads,
       outcomes \in [ControlNames -> WriteOutcomes] :
       /\ ~bbDevUp => \A n \in ControlNames : outcomes[n] \in UnreachableOutcomes
       /\ ~parsed => payload = [n \in ControlNames |-> Absent]
       /\ bbPayload' = payload
       /\ IF parsed /\ clientOk
          THEN LET r == ControlLoop(1, payload, outcomes, <<>>, NoCtlResult) IN
               /\ bbWrites' = r.writes
               /\ bbCtlResult' = r.result
               /\ bbCtlOutcomes' =
                     [n \in ControlNames |->
                         IF r.result[n] = "absent" THEN "none" ELSE outcomes[n]]
               /\ bbCtlStatus' = 200
          ELSE /\ bbWrites' = <<>>
               /\ bbCtlResult' = NoCtlResult
               /\ bbCtlOutcomes' = NoOutcomes
               /\ bbCtlStatus' = IF parsed THEN 500 ELSE 400
       /\ UNCHANGED notBBCtl

NextBBCtl == bb_api_control \/ BBDeviceDown \/ BBDeviceUp

(***************************************************************************)
(* Claims about POST /api/control of ba_cnet_based_hvac_controller         *)
(***************************************************************************)
\* the control points the last body named, in CONTROL_POINTS order
NamedPoints == SelectSeq(CONTROL_POINTS, LAMBDA p : bbPayload[p.name] # Absent)

\* C13: for a body that is answered 200, the write_property calls made are
\* exactly one per control point named in the body, in CONTROL_POINTS order,
\* each to the point's mapped object with the value given; a point not named
\* is not written.
C13_ControlForwarded ==
    bbCtlStatus = 200 =>
       /\ Len(bbWrites) = Len(NamedPoints)
       /\ \A k \in 1..Len(NamedPoints) :
             /\ bbWrites[k].obj_type = NamedPoints[k].obj_type
             /\ bbWrites[k].instance = NamedPoints[k].instance
             /\ bbWrites[k].prop = NamedPoints[k].prop
             /\ bbWrites[k].value = bbPayload[NamedPoints[k].name]

\* a body naming both points has been forwarded as two writes
C13_Witness ==
    /\ bbCtlStatus = 200
    /\ \A n \in ControlNames : bbPayload[n] # Absent
    /\ Len(bbWrites) = 2
    /\ bbWrites[1].obj_type = "analogValue" /\ bbWrites[2].obj_type = "binaryValue"
    /\ bbWrites[1].value # bbWrites[2].value

\* C20: POST /api/control reports "ok" for a control point only if the
\* device acknowledged that write with a SimpleAck.
C20_OkOnlyIfAcked ==
    \A n \in ControlNames :
       bbCtlResult[n] = "ok" => bbCtlOutcomes[n] = "ack"

-----------------------------------------------------------------------------
(***************************************************************************)
(* ba_cnet_hvac_controller/driver.py                                       *)
(***************************************************************************)
\* HVAC_OBJECTS: the json fields, in list order
HVAC_OBJECTS == <<"temperature", "humidity", "fan_status", "setpoint">>
HvFields == {HVAC_OBJECTS[i] : i \in 1..Len(HVAC_OBJECTS)}

\* the HTTP requests of one behaviour; each runs on its own server thread
HvRequests == 1..MaxHvRequests

\* the ?field= filters a GET /api/data may carry ({}: none, every field is
\* read)
HvFilters == {{}, {"humidity"}}

\* the bodies a POST /api/control may carry: the keys of the JSON object in
\* the order of command.items() (the values play no part in which response a
\* write takes from the queue)
HvBodies == {<<>>, <<"setpoint">>, <<"bogus", "fan_status">>}

\* an entry of a result dict: the field f it is stored under; its kind,
\* "none" (no entry yet), "null" (None), "value", "ok", "error" or
\* "unknown_field"; and own, whether it was derived from the outcome of the
\* BACnet request this handler made for this field
NoEntry == [f |-> "none", kind |-> "none", own |-> TRUE]

\* the module-level state
InitHV ==
    /\ hvStarted = 0
    /\ hvPc = [h \in HvRequests |-> "unstarted"]
    /\ hvOp = [h \in HvRequests |-> "none"]
    /\ hvTodo = [h \in HvRequests |-> <<>>]
    /\ hvLast = [h \in HvRequests |-> NoEntry]
    /\ hvSuccess = [h \in HvRequests |-> TRUE]
    /\ hvStatus = [h \in HvRequests |-> 0]
    /\ response_queue = <<>>
    /\ hvPending = {}

\* get_data: the fields its loop reads, in HVAC_OBJECTS order
FieldsToRead(filter_fields) ==
    SelectSeq(HVAC_OBJECTS, LAMBDA f : filter_fields = {} \/ f \in filter_fields)

\* the status a handler answers with when its loop is over
FinalStatus(op, success) ==
    IF op = "data" THEN 200 ELSE IF success THEN 200 ELSE 400

\* post_control: the fields of the body that are not in HVAC_OBJECTS get
\* "unknown_field" without any BACnet request, and success becomes False;
\* the locals of the handler after these have been passed over, from todo on
RECURSIVE SkipUnknown(_, _, _)
SkipUnknown(todo, last, success) ==
    IF todo # <<>> /\ Head(todo) \notin HvFields
    THEN SkipUnknown(Tail(todo),
                     [f |-> Head(todo), kind |-> "unknown_field", own |-> TRUE],
                     FALSE)
    ELSE [todo |-> todo, last |-> last, success |-> success]

\* the handler h goes on with the fields todo: to the next BACnet request,
\* or to its response
Continue(h, op, todo, last, success) ==
    LET s == SkipUnknown(todo, last, success) IN
    /\ hvTodo' = [hvTodo EXCEPT ![h] = s.todo]
    /\ hvLast' = [hvLast EXCEPT ![h] = s.last]
    /\ hvSuccess' = [hvSuccess EXCEPT ![h] = s.success]
    /\ IF s.todo = <<>>
       THEN /\ hvPc' = [hvPc EXCEPT ![h] = "done"]
            /\ hvStatus' = [hvStatus EXCEPT ![h] = FinalStatus(op, s.success)]
       ELSE /\ hvPc' = [hvPc EXCEPT ![h] = "send"]
            /\ UNCHANGED hvStatus

\* GET /api/data arrives: get_data up to its first bacnet_read_property
get_data(h, filter_fields) ==
    /\ h = hvStarted + 1
    /\ hvStarted' = h
    /\ hvOp' = [hvOp EXCEPT ![h] = "data"]
    /\ Continue(h, "data", FieldsToRead(filter_fields), NoEntry, TRUE)
    /\ UNCHANGED <<response_queue, hvPending>>
    /\ UNCHANGED notHV

\* POST /api/control arrives: post_control up to its first
\* bacnet_write_property.  parsed: request.get_json returned.
post_control(h, parsed, body) ==
    /\ h = hvStarted + 1
    /\ hvStarted' = h
    /\ hvOp' = [hvOp EXCEPT ![h] = "control"]
    /\ IF parsed
       THEN Continue(h, "control", body, NoEntry, TRUE)
       ELSE /\ body = <<>>
            /\ hvPc' = [hvPc EXCEPT ![h] = "done"]
            /\ hvStatus' = [hvStatus EXCEPT ![h] = 400]
            /\ UNCHANGED <<hvTodo, hvLast, hvSuccess>>
    /\ UNCHANGED <<response_queue, hvPending>>
    /\ UNCHANGED notHV

\* bacnet_read_property / bacnet_write_property: bacnet_app.request(request)
\* reaches: the request reaches the device, which may answer it at any
\* later time or never; a request that does not reach it is never answered.
bacnet_request(h) ==
    /\ hvPc[h] = "send"
    /\ \E reaches \in BOOLEAN :
          IF reaches
          THEN /\ Cardinality(hvPending) < MaxHvPending
               /\ hvPending' = hvPending \cup
                     {[h |-> h, f |-> Head(hvTodo[h]), op |-> hvOp[h]]}
          ELSE UNCHANGED hvPending
    /\ hvPc' = [hvPc EXCEPT ![h] = "wait"]
    /\ UNCHANGED <<hvStarted, hvOp, hvTodo, hvLast, hvSuccess, hvStatus,
                   response_queue>>
    /\ UNCHANGED notHV

\* bacnet_read_property: what it returns for the apdu taken from the queue;
\* raised: apdu.objectIdentifier does not exist on a SimpleAckPDU
ReadReturn(apdu) ==
    CASE apdu.kind = "error"     -> [raised |-> FALSE, kind |-> "null"]
      [] apdu.kind = "readAck"   -> [raised |-> FALSE, kind |-> "value"]
      [] apdu.kind = "simpleAck" -> [raised |-> TRUE,  kind |-> "null"]

\* bacnet_write_property: what it returns for the apdu taken from the queue
WriteReturn(apdu) == apdu.kind = "simpleAck"

\* the apdu is the device's answer to the request handler h made for field f
IsOwn(apdu, h, f) == apdu.h = h /\ apdu.f = f

\* A mutant of QueueEmptyAfter: response_queue.get has no timeout, the
\* call blocks until something is in the queue.
QueueEmptyAfter_NoTimeout(q) == FALSE

\* response_queue.get(timeout=3.0) raises queue.Empty: the queue has stayed
\* empty for the 3 s
QueueEmptyAfter(q) == q = <<>>

\* bacnet_read_property / bacnet_write_property: response_queue.get returns
\* the oldest apdu of the queue, and the handler goes on
bacnet_response(h) ==
    /\ hvPc[h] = "wait"
    /\ response_queue # <<>>
    /\ LET apdu == Head(response_queue)
           f    == Head(hvTodo[h])
       IN  /\ response_queue' = Tail(response_queue)
           /\ IF hvOp[h] = "data"
              THEN LET r == ReadReturn(apdu) IN
                   IF r.raised
                   THEN \* AttributeError: Flask answers 500
                        /\ hvPc' = [hvPc EXCEPT ![h] = "done"]
                        /\ hvStatus' = [hvStatus EXCEPT ![h] = 500]
                        /\ UNCHANGED <<hvTodo, hvLast, hvSuccess>>
                   ELSE Continue(h, "data", Tail(hvTodo[h]),
                                 [f |-> f, kind |-> r.kind,
                                  own |-> IsOwn(apdu, h, f)],
                                 hvSuccess[h])
              ELSE LET ok == WriteReturn(apdu) IN
                   Continue(h, "control", Tail(hvTodo[h]),
                            [f |-> f, kind |-> IF ok THEN "ok" ELSE "error",
                             own |-> IsOwn(apdu, h, f)],
                            hvSuccess[h] /\ ok)
    /\ UNCHANGED <<hvStarted, hvOp, hvPending>>
    /\ UNCHANGED notHV

\* bacnet_read_property / bacnet_write_property: queue.Empty after the
\* timeout; None or False is returned and the handler goes on
bacnet_timeout(h) ==
    /\ hvPc[h] = "wait"
    /\ QueueEmptyAfter(response_queue)
    /\ LET f == Head(hvTodo[h]) IN
       Continue(h, hvOp[h], Tail(hvTodo[h]),
                [f |-> f, kind |-> IF hvOp[h] = "data" THEN "null" ELSE "error",
                 own |-> TRUE],
                hvSuccess[h] /\ hvOp[h] = "data")
    /\ UNCHANGED <<hvStarted, hvOp, response_queue, hvPending>>
    /\ UNCHANGED notHV

\* BACnetApp.confirmation: the device's answer to a request arrives, however
\* late, and is put into the queue
confirmation(req, isError) ==
    /\ req \in hvPending
    /\ Len(response_queue) < MaxHvQueue
    /\ hvPending' = hvPending \ {req}
    /\ response_queue' =
          Append(response_queue,
                 [h |-> req.h, f |-> req.f,
                  kind |-> IF isError THEN "error"
                           ELSE IF req.op = "data" THEN "readAck"
                           ELSE "simpleAck"])
    /\ UNCHANGED <<hvStarted, hvPc, hvOp, hvTodo, hvLast, hvSuccess, hvStatus>>
    /\ UNCHANGED notHV

NextHV ==
    \/ \E h \in HvRequests, filter_fields \in HvFilters : get_data(h, filter_fields)
    \/ \E h \in HvRequests, parsed \in BOOLEAN, body \in HvBodies :
          post_control(h, parsed, body)
    \/ \E h \in HvRequests : bacnet_request(h)
    \/ \E h \in HvRequests : bacnet_response(h)
    \/ \E h \in HvRequests : bacnet_timeout(h)
    \/ \E req \in hvPending, isError \in BOOLEAN : confirmation(req, isError)

(***************************************************************************)
(* Claims about ba_cnet_hvac_controller/driver.py                          *)
(***************************************************************************)
\* C14: GET /api/data and POST /api/control never hang, whether or not the
\* device answers: every handler that has started eventually completes with
\* an HTTP response.
C14_HandlersComplete ==
    \A h \in HvRequests :
       (hvPc[h] # "unstarted") ~> (hvPc[h] = "done" /\ hvStatus[h] # 0)

\* a GET /api/data with no filter has completed though the device answered
\* none of its four requests
C14_Witness ==
    /\ hvStarted = 1
    /\ hvPc[1] = "done" /\ hvOp[1] = "data" /\ hvStatus[1] = 200
    /\ hvLast[1] = [f |-> "setpoint", kind |-> "null", own |-> TRUE]
    /\ response_queue = <<>>
    /\ Cardinality(hvPending) = MaxHvPending

\* C19: the entry reported for a field by GET /api/data or POST /api/control
\* is derived from the outcome of that field's own request.
C19_OwnResponse ==
    \A h \in HvRequests : hvLast[h].kind # "none" => hvLast[h].own

-----------------------------------------------------------------------------
(***************************************************************************)
(* smart_environmental_monitoring_device/driver.py                         *)
(***************************************************************************)
ThresholdKeys == {"PM2.5", "CO2"}
\* threshold values a message may carry (NoKey: the key is not in the
\* message; NotANumber: a JSON string, null, list or object, a value that
\* "reading > value" raises TypeError for), and the presets of the device
\* state
NoKey == 0
NotANumber == -1
ThresholdInputs == {10, 50, NotANumber}
PresetThreshold == [k \in ThresholdKeys |-> IF k = "PM2.5" THEN 35 ELSE 800]
PresetBrightness == 75
BrightnessInputs == {0, 50}

\* The payloads of the three configuration topics.
\* device/config/alarm_threshold:
\*   [kind |-> "object", data]   a JSON object, data gives the value per key
\*   [kind |-> "notJson"]        json.loads raises
\*   [kind |-> "scalar"]         JSON that is a number, true, false or null
\*   [kind |-> "badList", data]  a JSON list of [key, value] pairs, data,
\*                               followed by an element that is not a pair
ThresholdPayloads ==
    [kind : {"object"}, data : [ThresholdKeys -> ThresholdInputs \cup {NoKey}]]
    \cup [kind : {"notJson", "scalar"}, data : {[k \in ThresholdKeys |-> NoKey]}]
    \cup [kind : {"badList"},
          data : {d \in [ThresholdKeys -> ThresholdInputs \cup {NoKey}] :
                     d["CO2"] = NoKey}]
\* device/config/led:
\*   [kind |-> "brightness", value]  "BRIGHTNESS:<integer>"
\*   [kind |-> "badNumber"]          "BRIGHTNESS:<not an integer>"
\*   [kind |-> "other"]              a payload without the prefix
LedPayloads ==
    [kind : {"brightness"}, value : BrightnessInputs]
    \cup [kind : {"badNumber", "other"}, value : {0}]
\* device/config/buzzer: "ENABLE", "DISABLE", or anything else
BuzzerPayloads == {"ENABLE", "DISABLE", "other"}

\* the payloads the device cannot apply
InvalidThreshold(p) == p.kind # "object"
InvalidLed(p) == p.kind # "brightness"
InvalidBuzzer(p) == p \notin {"ENABLE", "DISABLE"}

NoAck == [topic |-> "none", result |-> "none"]

\* the module-level state dict
InitEnv ==
    /\ alarm_threshold = PresetThreshold
    /\ led_brightness = PresetBrightness
    /\ status_led = "on"
    /\ buzzer = "DISABLE"
    /\ envAck = NoAck
    /\ alarm_active = FALSE

\* dict.update(data): the keys data holds are set, one after the other
DictMerge(d, data) ==
    [k \in ThresholdKeys |-> IF data[k] # NoKey THEN data[k] ELSE d[k]]

\* on_message, topic device/config/alarm_threshold
on_message_alarm_threshold(p) ==
    /\ IF p.kind = "object"
       THEN /\ alarm_threshold' = DictMerge(alarm_threshold, p.data)
            /\ envAck' = [topic |-> "device/config/alarm_threshold/ack",
                          result |-> "ok"]
       ELSE IF p.kind = "badList"
       THEN \* update() has set the pairs before the element that raises
            /\ alarm_threshold' = DictMerge(alarm_threshold, p.data)
            /\ envAck' = [topic |-> "device/config/alarm_threshold/ack",
                          result |-> "error"]
       ELSE /\ UNCHANGED alarm_threshold
            /\ envAck' = [topic |-> "device/config/alarm_threshold/ack",
                          result |-> "error"]
    /\ UNCHANGED <<led_brightness, status_led, buzzer, alarm_active>>
    /\ UNCHANGED notEnv

\* on_message, topic device/config/led
on_message_led(p) ==
    /\ IF p.kind = "other"
       THEN \* the prefix test fails: nothing is done, nothing is published
            /\ envAck' = NoAck
            /\ UNCHANGED <<led_brightness, status_led>>
       ELSE IF p.kind = "badNumber"
       THEN \* int() raises
            /\ envAck' = [topic |-> "device/config/led/ack", result |-> "error"]
            /\ UNCHANGED <<led_brightness, status_led>>
       ELSE /\ led_brightness' = p.value
            /\ status_led' = IF p.value > 0 THEN "on" ELSE "off"
            /\ envAck' = [topic |-> "device/config/led/ack", result |-> "ok"]
    /\ UNCHANGED <<alarm_threshold, buzzer, alarm_active>>
    /\ UNCHANGED notEnv

\* on_message, topic device/config/buzzer
on_message_buzzer(p) ==
    /\ IF p \in {"ENABLE", "DISABLE"}
       THEN /\ buzzer' = p
            /\ envAck' = [topic |-> "device/config/buzzer/ack", result |-> "ok"]
       ELSE /\ UNCHANGED buzzer
            /\ envAck' = [topic |-> "device/config/buzzer/ack",
                          result |-> "error"]
    /\ UNCHANGED <<alarm_threshold, led_brightness, status_led, alarm_active>>
    /\ UNCHANGED notEnv

\* on_message, topic device/commands/reset with payload RESET
on_message_reset ==
    /\ alarm_threshold' = PresetThreshold
    /\ led_brightness' = PresetBrightness
    /\ status_led' = "on"
    /\ buzzer' = "DISABLE"
    /\ alarm_active' = FALSE
    /\ envAck' = [topic |-> "device/commands/reset/ack", result |-> "reset"]
    /\ UNCHANGED notEnv

NextEnv ==
    \/ \E p \in ThresholdPayloads : on_message_alarm_threshold(p)
    \/ \E p \in LedPayloads : on_message_led(p)
    \/ \E p \in BuzzerPayloads : on_message_buzzer(p)
    \/ on_message_reset

(***************************************************************************)
(* Claims about smart_environmental_monitoring_device/driver.py            *)
(***************************************************************************)
\* a message with an invalid payload is handled, and the /ack topic of its
\* topic
InvalidConfigMessage(ack) ==
    \/ /\ ack = "device/config/alarm_threshold/ack"
       /\ \E p \in ThresholdPayloads :
             InvalidThreshold(p) /\ on_message_alarm_threshold(p)
    \/ /\ ack = "device/config/led/ack"
       /\ \E p \in LedPayloads : InvalidLed(p) /\ on_message_led(p)
    \/ /\ ack = "device/config/buzzer/ack"
       /\ \E p \in BuzzerPayloads : InvalidBuzzer(p) /\ on_message_buzzer(p)

ConfigAcks == {"device/config/alarm_threshold/ack", "device/config/led/ack",
               "device/config/buzzer/ack"}

\* C15: a message on device/config/alarm_threshold, device/config/led or
\* device/config/buzzer whose payload is invalid is answered with an error
\* payload on the topic's /ack and leaves alarm_threshold, led_brightness,
\* status.led and buzzer unchanged.
C15_InvalidConfigRejected ==
    [][ \A ack \in ConfigAcks :
           InvalidConfigMessage(ack)
              => /\ envAck' = [topic |-> ack, result |-> "error"]
                 /\ UNCHANGED <<alarm_threshold, led_brightness, status_led,
                                buzzer>> ]_vars

-----------------------------------------------------------------------------
(***************************************************************************)
(* multi_channel_decoder/driver.py: DeviceShifuMQTTDriver.                 *)
(* run() connects to the broker, starts one daemon thread per publisher    *)
(* topic and sleeps until shutdown_flag is set; shutdown() sets the flag   *)
(* and stops the MQTT client.  Each publisher thread runs                  *)
(*     while not shutdown_flag.is_set():                                   *)
(*         retrieve; publish; shutdown_flag.wait(interval)                 *)
(* The publishers are modelled as leaving on their own: the model does not *)
(* use the end of the process to stop them.                                *)
(***************************************************************************)
MaxDecCycles == 2

DecTopics == {"device/decoder/status", "device/decoder/alarm"}

InitDec ==
    /\ shutdown_flag = FALSE
    /\ decMainPc = "connect"
    /\ decPubPc = [t \in DecTopics |-> "unstarted"]
    /\ latest_data = [t \in DecTopics |-> 0]
    /\ mqtt_status = FALSE
    /\ mqtt_client = "none"
    /\ decSent = [t \in DecTopics |-> 0]

\* shutdown(): set the flag, then loop_stop() and disconnect() if a client
\* exists.  With the network loop stopped no callback runs any more, so
\* connection_status['mqtt'] keeps the value it had.
shutdown_body ==
    /\ shutdown_flag' = TRUE
    /\ mqtt_client' = IF mqtt_client = "none" THEN "none" ELSE "stopped"

\* connect_mqtt(): "while not shutdown_flag.is_set()": connect and break, or
\* log, clear the status, sleep and try again.  The client object is created
\* before the loop; with the flag already set its network loop never starts.
dec_connect_mqtt(ok) ==
    /\ decMainPc = "connect"
    /\ IF shutdown_flag
         THEN /\ decMainPc' = "start"
              /\ mqtt_client' = "stopped"
              /\ UNCHANGED mqtt_status
         ELSE IF ok
           THEN /\ mqtt_client' = "up"
                /\ decMainPc' = "start"
                /\ UNCHANGED mqtt_status
           ELSE /\ mqtt_client' = "down"
                /\ mqtt_status' = FALSE
                /\ UNCHANGED decMainPc
    /\ UNCHANGED <<shutdown_flag, decPubPc, latest_data, decSent>>
    /\ UNCHANGED notDec

\* _on_mqtt_connect (rc = 0), called from the client's network loop.
on_mqtt_connect ==
    /\ mqtt_client = "up"
    /\ decMainPc # "connect"
    /\ ~mqtt_status
    /\ mqtt_status' = TRUE
    /\ UNCHANGED <<shutdown_flag, decMainPc, decPubPc, latest_data, mqtt_client, decSent>>
    /\ UNCHANGED notDec

\* _on_mqtt_disconnect, called from the network loop when the broker is lost.
on_mqtt_disconnect ==
    /\ mqtt_client = "up"
    /\ decMainPc # "connect"
    /\ mqtt_client' = "down"
    /\ mqtt_status' = FALSE
    /\ UNCHANGED <<shutdown_flag, decMainPc, decPubPc, latest_data, decSent>>
    /\ UNCHANGED notDec

\* the network loop started by loop_start() re-establishes a lost connection.
mqtt_reconnect ==
    /\ mqtt_client = "down"
    /\ decMainPc # "connect"
    /\ mqtt_client' = "up"
    /\ UNCHANGED <<shutdown_flag, decMainPc, decPubPc, latest_data, mqtt_status, decSent>>
    /\ UNCHANGED notDec

\* _start_scheduled_publishers(): one thread per publisher topic, started.
start_scheduled_publishers ==
    /\ decMainPc = "start"
    /\ decPubPc' = [t \in DecTopics |-> "test"]
    /\ decMainPc' = "mainloop"
    /\ UNCHANGED <<shutdown_flag, latest_data, mqtt_status, mqtt_client, decSent>>
    /\ UNCHANGED notDec

\* run(): "while not self.shutdown_flag.is_set(): time.sleep(1)", then the
\* finally clause.
run_main_loop ==
    /\ decMainPc = "mainloop"
    /\ shutdown_flag
    /\ decMainPc' = "finally"
    /\ UNCHANGED <<shutdown_flag, decPubPc, latest_data, mqtt_status, mqtt_client, decSent>>
    /\ UNCHANGED notDec

\* run(): "finally: self.shutdown()".
run_finally ==
    /\ decMainPc = "finally"
    /\ shutdown_body
    /\ decMainPc' = "exited"
    /\ UNCHANGED <<decPubPc, latest_data, mqtt_status, decSent>>
    /\ UNCHANGED notDec

\* signal_handler(): SIGINT/SIGTERM run shutdown() in the main thread,
\* wherever run() is.
signal_handler ==
    /\ decMainPc # "exited"
    /\ shutdown_body
    /\ UNCHANGED <<decMainPc, decPubPc, latest_data, mqtt_status, decSent>>
    /\ UNCHANGED notDec

\* "while not self.shutdown_flag.is_set()"
LoopTest_Ignore(flag) == TRUE

LoopTest(flag) == ~flag

\* the loop test of _publish_topic_periodically
publish_topic_periodically_test(t) ==
    /\ decPubPc[t] = "test"
    /\ IF LoopTest(shutdown_flag)
         THEN /\ latest_data[t] < MaxDecCycles
              /\ decPubPc' = [decPubPc EXCEPT ![t] = "body"]
         ELSE decPubPc' = [decPubPc EXCEPT ![t] = "done"]
    /\ UNCHANGED <<shutdown_flag, decMainPc, latest_data, mqtt_status, mqtt_client, decSent>>
    /\ UNCHANGED notDec

\* _publish_mqtt_data: skipped without a client or with the status down; a
\* publish on a client that is not connected returns an error code, logged.
PublishMqttData(sent, t) ==
    IF mqtt_client # "none" /\ mqtt_status /\ mqtt_client = "up"
      THEN [sent EXCEPT ![t] = @ + 1]
      ELSE sent

\* the loop body: _retrieve_device_data (stores latest_data[topic]) and
\* _publish_mqtt_data; any exception is caught and logged.
publish_topic_periodically_body(t) ==
    /\ decPubPc[t] = "body"
    /\ latest_data' = [latest_data EXCEPT ![t] = @ + 1]
    /\ decSent' = PublishMqttData(decSent, t)
    /\ decPubPc' = [decPubPc EXCEPT ![t] = "wait"]
    /\ UNCHANGED <<shutdown_flag, decMainPc, mqtt_status, mqtt_client>>
    /\ UNCHANGED notDec

\* "self.shutdown_flag.wait(interval_ms / 1000.0)": returns when the flag is
\* set or the interval has passed.
publish_topic_periodically_wait(t) ==
    /\ decPubPc[t] = "wait"
    /\ decPubPc' = [decPubPc EXCEPT ![t] = "test"]
    /\ UNCHANGED <<shutdown_flag, decMainPc, latest_data, mqtt_status, mqtt_client, decSent>>
    /\ UNCHANGED notDec

PublisherStep(t) ==
    \/ publish_topic_periodically_test(t)
    \/ publish_topic_periodically_body(t)
    \/ publish_topic_periodically_wait(t)

NextDec ==
    \/ \E ok \in BOOLEAN : dec_connect_mqtt(ok)
    \/ on_mqtt_connect
    \/ on_mqtt_disconnect
    \/ mqtt_reconnect
    \/ start_scheduled_publishers
    \/ run_main_loop
    \/ run_finally
    \/ signal_handler
    \/ \E t \in DecTopics : publish_topic_periodically_test(t)
    \/ \E t \in DecTopics : publish_topic_periodically_body(t)
    \/ \E t \in DecTopics : publish_topic_periodically_wait(t)

\* C16: cancellation is by the stop flag only.  Once shutdown() has set
\* shutdown_flag the flag stays set, no publisher thread enters its loop body
\* again (a thread already in the body finishes that iteration only), and
\* every started publisher thread eventually leaves its loop.
C16_StopFlagCancels ==
    /\ [][shutdown_flag => shutdown_flag']_vars
    /\ [][\A t \in DecTopics :
             (shutdown_flag /\ decPubPc[t] # "body") => decPubPc'[t] # "body"]_vars
    /\ \A t \in DecTopics :
          (shutdown_flag /\ decPubPc[t] # "unstarted") ~> (decPubPc[t] = "done")

\* both publishers have published, one was inside its iteration when the flag
\* was set, and both have left their loops.
C16_Witness ==
    /\ shutdown_flag
    /\ \A t \in DecTopics : decPubPc[t] = "done" /\ latest_data[t] > 0
    /\ \E t \in DecTopics : decSent[t] < latest_data[t]
    /\ \E t \in DecTopics : decSent[t] > 0

-----------------------------------------------------------------------------
(***************************************************************************)
(* device_network_sdk/driver.py: DeviceShifuMQTTDriver, the connection to  *)
(* the MQTT broker.  connect_mqtt calls connect() in a loop that ends on   *)
(* success or on shutdown_flag, then waits for the CONNACK; on_disconnect  *)
(* calls reconnect() in a loop of the same shape.                          *)
(***************************************************************************)
MaxSdkAttempts == 3

InitSdk ==
    /\ sdkShutdown = FALSE
    /\ sdkPc = "connect"
    /\ mqtt_connected = FALSE
    /\ sdkLink = "none"
    /\ sdkAttempts = 0
    /\ sdkConnFailed = 0
    /\ sdkReconnects = 0
    /\ sdkReconnFailed = 0
    /\ sdkTimedOut = FALSE
    /\ sdkCbPc = "idle"
    /\ sdkBrokerUp = TRUE

\* A mutant of AfterFailure: a failed attempt ends the loop.
AfterFailure_GiveUp(inLoop, left) == left

\* "except Exception: logger.error(... Retrying in 5 seconds ...);
\* time.sleep(5)": the loop goes round again
AfterFailure(inLoop, left) == inLoop

\* connect_mqtt: one pass of "while not self.shutdown_flag.is_set()"
connect_mqtt_attempt ==
    /\ sdkPc = "connect"
    /\ IF sdkShutdown
         THEN /\ sdkPc' = "await"
              /\ UNCHANGED <<sdkAttempts, sdkConnFailed, sdkLink>>
         ELSE /\ sdkAttempts < MaxSdkAttempts
              /\ sdkAttempts' = sdkAttempts + 1
              /\ IF sdkBrokerUp
                   THEN \* connect() returns; break
                        /\ sdkLink' = "tcp"
                        /\ sdkPc' = "await"
                        /\ UNCHANGED sdkConnFailed
                   ELSE \* connect() raises
                        /\ sdkConnFailed' = sdkConnFailed + 1
                        /\ sdkPc' = AfterFailure("connect", "await")
                        /\ UNCHANGED sdkLink
    /\ UNCHANGED <<sdkShutdown, mqtt_connected, sdkReconnects, sdkReconnFailed,
                   sdkTimedOut, sdkCbPc, sdkBrokerUp>>
    /\ UNCHANGED notSdk

\* connect_mqtt: "self.mqtt_connected.wait(timeout=15)" and the test after
\* it; run() catches the ConnectionError, logs it and goes on.
connect_mqtt_wait ==
    /\ sdkPc = "await"
    /\ sdkPc' = "running"
    /\ sdkTimedOut' = ~mqtt_connected
    /\ UNCHANGED <<sdkShutdown, mqtt_connected, sdkLink, sdkAttempts, sdkConnFailed,
                   sdkReconnects, sdkReconnFailed, sdkCbPc, sdkBrokerUp>>
    /\ UNCHANGED notSdk

\* on_connect with rc = 0, from the network loop
sdk_on_connect ==
    /\ sdkLink = "tcp"
    /\ sdkBrokerUp
    /\ sdkLink' = "up"
    /\ mqtt_connected' = TRUE
    /\ UNCHANGED <<sdkShutdown, sdkPc, sdkAttempts, sdkConnFailed, sdkReconnects,
                   sdkReconnFailed, sdkTimedOut, sdkCbPc, sdkBrokerUp>>
    /\ UNCHANGED notSdk

\* on_disconnect, up to its loop: clear the flags, log, and enter the
\* reconnect loop unless shutting down
sdk_on_disconnect ==
    /\ sdkLink = "lost"
    /\ sdkCbPc = "idle"
    /\ mqtt_connected' = FALSE
    /\ sdkLink' = "none"
    /\ sdkCbPc' = IF sdkShutdown THEN "idle" ELSE "reconnect"
    /\ UNCHANGED <<sdkShutdown, sdkPc, sdkAttempts, sdkConnFailed, sdkReconnects,
                   sdkReconnFailed, sdkTimedOut, sdkBrokerUp>>
    /\ UNCHANGED notSdk

\* on_disconnect: one pass of "while not self.shutdown_flag.is_set()"
on_disconnect_reconnect ==
    /\ sdkCbPc = "reconnect"
    /\ IF sdkShutdown
         THEN /\ sdkCbPc' = "idle"
              /\ UNCHANGED <<sdkReconnects, sdkReconnFailed, sdkLink>>
         ELSE /\ sdkReconnects < MaxSdkAttempts
              /\ sdkReconnects' = sdkReconnects + 1
              /\ IF sdkBrokerUp
                   THEN \* reconnect() returns; break
                        /\ sdkLink' = "tcp"
                        /\ sdkCbPc' = "idle"
                        /\ UNCHANGED sdkReconnFailed
                   ELSE \* reconnect() raises
                        /\ sdkReconnFailed' = sdkReconnFailed + 1
                        /\ sdkCbPc' = AfterFailure("reconnect", "idle")
                        /\ UNCHANGED sdkLink
    /\ UNCHANGED <<sdkShutdown, sdkPc, mqtt_connected, sdkAttempts, sdkConnFailed,
                   sdkTimedOut, sdkBrokerUp>>
    /\ UNCHANGED notSdk

\* shutdown(), from signal_handler: set the flag, loop_stop(force=True),
\* disconnect(), sys.exit(0)
sdk_shutdown ==
    /\ sdkPc # "stopped"
    /\ sdkShutdown' = TRUE
    /\ sdkLink' = "none"
    /\ sdkPc' = "stopped"
    /\ UNCHANGED <<mqtt_connected, sdkAttempts, sdkConnFailed, sdkReconnects,
                   sdkReconnFailed, sdkTimedOut, sdkCbPc, sdkBrokerUp>>
    /\ UNCHANGED notSdk

\* Environment: the broker goes away (an established connection is lost) /
\* comes back
SdkBrokerDown ==
    /\ sdkBrokerUp
    /\ sdkBrokerUp' = FALSE
    /\ sdkLink' = IF sdkLink \in {"tcp", "up"} THEN "lost" ELSE sdkLink
    /\ UNCHANGED <<sdkShutdown, sdkPc, mqtt_connected, sdkAttempts, sdkConnFailed,
                   sdkReconnects, sdkReconnFailed, sdkTimedOut, sdkCbPc>>
    /\ UNCHANGED notSdk

SdkBrokerUp ==
    /\ ~sdkBrokerUp
    /\ sdkBrokerUp' = TRUE
    /\ UNCHANGED <<sdkShutdown, sdkPc, mqtt_connected, sdkLink, sdkAttempts,
                   sdkConnFailed, sdkReconnects, sdkReconnFailed, sdkTimedOut, sdkCbPc>>
    /\ UNCHANGED notSdk

NextSdk ==
    \/ connect_mqtt_attempt
    \/ connect_mqtt_wait
    \/ sdk_on_connect
    \/ sdk_on_disconnect
    \/ on_disconnect_reconnect
    \/ sdk_shutdown
    \/ SdkBrokerDown
    \/ SdkBrokerUp

-----------------------------------------------------------------------------
(***************************************************************************)
(* hvac_room_thermostat/driver.py: POST /api/control.                      *)
(* The module keeps hvac_controller and connection_status as globals that  *)
(* start as None / not connected; no code of the module assigns them, so   *)
(* the connected state the handlers test for is set by whatever embeds the *)
(* module (ThConnect, ThDisconnect below).                                 *)
(***************************************************************************)
\* data.get('value') when the key is absent or not a number
ThNone == -1

ThCommands == {"missing", "bogus", "set_setpoint", "set_mode", "set_ventilation",
               "override_setpoint"}
ThValues == {ThNone, 1, 4, 21}

\* what happens to the coroutine once it is submitted to the loop: it returns
\* True, a write raises and it returns False, or future.result(timeout=30)
\* raises (timeout, cancellation)
ThOutcomes == {"True", "False", "raises"}

NoThResp == [cmd |-> "none", value |-> ThNone, result |-> "none", code |-> 0,
             success |-> FALSE]

InitTh ==
    /\ hvac_controller = FALSE
    /\ thConnected = FALSE
    /\ thLoopRunning = FALSE
    /\ thResp = NoThResp

\* run_async_task: an error dict when the loop is not running or the future
\* raises, else the coroutine's return value
run_async_task(loopRunning, outcome) ==
    IF ~loopRunning THEN "error_dict"
    ELSE IF outcome = "raises" THEN "error_dict"
    ELSE outcome

\* check_connection
check_connection == hvac_controller /\ thConnected

\* the validation of control_device (route): "" when the request is valid,
\* else the error of the 400 response
ThValidate(cmd, value) ==
    IF cmd = "missing" THEN "Missing command"
    ELSE IF cmd = "bogus" THEN "Invalid command"
    ELSE IF cmd \in {"set_setpoint", "override_setpoint"} /\ value = ThNone
      THEN "Invalid temperature value"
    ELSE IF cmd = "set_mode" /\ value \notin {1, 2, 3} THEN "Invalid mode value"
    ELSE IF cmd = "set_ventilation" /\ value \notin {1, 2, 3, 4}
      THEN "Invalid ventilation value"
    ELSE ""

\* "if result:": True and a non-empty dict are truthy, False is not
Truthy(result) == result \in {"True", "error_dict"}

\* control_device (route), the whole handler
th_control_device(cmd, value, outcome) ==
    /\ IF ~check_connection
         THEN thResp' = [NoThResp EXCEPT !.cmd = cmd, !.value = value, !.code = 400]
       ELSE IF ThValidate(cmd, value) # ""
         THEN thResp' = [NoThResp EXCEPT !.cmd = cmd, !.value = value, !.code = 400]
       ELSE LET result == run_async_task(thLoopRunning, outcome) IN
            thResp' = [cmd |-> cmd, value |-> value, result |-> result,
                       code |-> IF Truthy(result) THEN 200 ELSE 500,
                       success |-> Truthy(result)]
    /\ UNCHANGED <<hvac_controller, thConnected, thLoopRunning>>
    /\ UNCHANGED notTh

\* run_event_loop, in its thread: the loop exists and runs
run_event_loop ==
    /\ ~thLoopRunning
    /\ thLoopRunning' = TRUE
    /\ UNCHANGED <<hvac_controller, thConnected, thResp>>
    /\ UNCHANGED notTh

\* Environment: the embedding program sets / clears the connection globals
ThConnect ==
    /\ ~check_connection
    /\ hvac_controller' = TRUE
    /\ thConnected' = TRUE
    /\ UNCHANGED <<thLoopRunning, thResp>>
    /\ UNCHANGED notTh

ThDisconnect ==
    /\ thConnected
    /\ thConnected' = FALSE
    /\ UNCHANGED <<hvac_controller, thLoopRunning, thResp>>
    /\ UNCHANGED notTh

NextTh ==
    \/ \E cmd \in ThCommands, value \in ThValues, outcome \in ThOutcomes :
          th_control_device(cmd, value, outcome)
    \/ run_event_loop
    \/ ThConnect
    \/ ThDisconnect

-----------------------------------------------------------------------------
(***************************************************************************)
(* device_network_sdk/driver.py: on_message / handle_mqtt_message.         *)
(* A topic is the sequence of its levels after <prefix>/<device>/.  The    *)
(* driver is subscribed (on_connect) to control/# and device/commands/#,   *)
(* and the broker delivers every matching publish to it, its own included. *)
(***************************************************************************)
MaxSdkInbound == 2
MaxSdkInbox == 2
MaxSdkPubs == 3

SdkControlCommands == {"activate", "login", "reboot", "control"}

\* the topics other clients publish to
SdkInboundTopics ==
    {<<"control", c>> : c \in SdkControlCommands \cup {"bogus"}}
      \cup {<<"device", "commands", c>> : c \in SdkControlCommands \cup {"bogus"}}

\* payloads: a JSON object, JSON that is no object, not JSON
SdkPayloads == {"object", "scalar", "invalid"}

InitSdkMsg ==
    /\ sdkInbox = <<>>
    /\ sdkInjected = 0
    /\ sdkPubs = 0

\* on_connect: the subscriptions control/# and device/commands/#
SdkSubscribed(topic) ==
    \/ Head(topic) = "control"
    \/ (Len(topic) >= 2 /\ topic[1] = "device" /\ topic[2] = "commands")

\* handle_mqtt_message: the topic of the response it publishes, <<>> when it
\* publishes nothing.  data.get on JSON that is no object raises, which
\* on_message catches; an unknown control command reads nothing from data.
ResponseTopic(topic, payload) ==
    IF payload = "invalid" THEN <<>>
    ELSE IF Head(topic) = "control"
      THEN LET command == topic[Len(topic)] IN
           IF command \in {"activate", "login", "control"} /\ payload = "scalar"
             THEN <<>>
             ELSE <<"control", command, "response">>
    ELSE IF Len(topic) = 3 /\ topic[1] = "device" /\ topic[2] = "commands"
            /\ topic[3] \in SdkControlCommands
      THEN IF topic[3] # "reboot" /\ payload = "scalar"
             THEN <<>>
             ELSE Append(topic, "response")
    ELSE <<>>

\* on_message: handle the oldest message; _mqtt_publish sends the response,
\* a JSON object, which the broker delivers back when a subscription matches
\* (sdkPubs stops counting at MaxSdkPubs, so that a response that answers
\* itself shows as a step that repeats one state)
sdk_on_message ==
    /\ sdkInbox # <<>>
    /\ LET msg == Head(sdkInbox)
           resp == ResponseTopic(msg.topic, msg.payload) IN
       IF resp = <<>>
         THEN /\ sdkInbox' = Tail(sdkInbox)
              /\ UNCHANGED sdkPubs
         ELSE /\ sdkPubs' = IF sdkPubs < MaxSdkPubs THEN sdkPubs + 1 ELSE sdkPubs
              /\ sdkInbox' = IF SdkSubscribed(resp)
                               THEN Append(Tail(sdkInbox),
                                           [topic |-> resp, payload |-> "object"])
                               ELSE Tail(sdkInbox)
    /\ UNCHANGED sdkInjected
    /\ UNCHANGED notSdkMsg

\* Environment: another client publishes a message
SdkInbound(topic, payload) ==
    /\ sdkInjected < MaxSdkInbound
    /\ Len(sdkInbox) < MaxSdkInbox
    /\ sdkInjected' = sdkInjected + 1
    /\ sdkInbox' = Append(sdkInbox, [topic |-> topic, payload |-> payload])
    /\ UNCHANGED sdkPubs
    /\ UNCHANGED notSdkMsg

NextSdkMsg ==
    \/ sdk_on_message
    \/ \E topic \in SdkInboundTopics, payload \in SdkPayloads : SdkInbound(topic, payload)

\* C22: handling an inbound control message causes finitely many publishes
\* and the driver then becomes quiescent: with the network thread scheduled
\* fairly, eventually no message is left for the driver, for good.
C22_Quiescent == <>[](sdkInbox = <<>>)

-----------------------------------------------------------------------------
(***************************************************************************)
(* multi_channel_network_video_decoder/driver.py: on_message and           *)
(* handle_mqtt_message.  Topics are written after <prefix>/<device>/.      *)
(* connect_mqtt subscribes to control/reboot, control/config and           *)
(* device/telemetry/status; the broker delivers every publish on a         *)
(* subscribed topic to the driver, its own included.                       *)
(***************************************************************************)
MaxNvdInbound == 2
MaxNvdInbox == 2
MaxNvdPubs == 3

\* connect_mqtt: the subscriptions
NvdSubscriptions == {"control/reboot", "control/config", "device/telemetry/status"}

\* payloads: a JSON object, JSON that is no object, not JSON
NvdPayloads == {"object", "scalar", "invalid"}

InitNvdMsg ==
    /\ nvdInbox = <<>>
    /\ nvdInjected = 0
    /\ nvdPubs = 0
    /\ nvdLinkUp = TRUE

\* handle_mqtt_message: the topics it publishes to, in order.  Text that is
\* not JSON becomes {"raw": ...}; _handle_config_command calls payload.get,
\* which raises on JSON that is no object (on_message logs the exception).
NvdPublishes(topic, payload) ==
    IF topic = "control/reboot" THEN <<"status", "status">>
    ELSE IF topic = "control/config"
      THEN IF payload = "scalar" THEN <<>> ELSE <<"control/config/response">>
    ELSE IF topic = "device/telemetry/status" THEN <<"device/telemetry/status">>
    ELSE <<>>

\* what the broker delivers back of a sequence of publishes
NvdDelivered(topics) ==
    LET own == SelectSeq(topics, LAMBDA t : t \in NvdSubscriptions) IN
    [i \in 1..Len(own) |-> [topic |-> own[i], payload |-> "object"]]

NvdCount(n, k) == IF n + k < MaxNvdPubs THEN n + k ELSE MaxNvdPubs

\* on_message: handle the oldest message.  A publish on a client that is not
\* connected returns an error code and sends nothing.  (nvdPubs stops
\* counting at MaxNvdPubs.)
nvd_on_message ==
    /\ nvdInbox # <<>>
    /\ LET msg == Head(nvdInbox)
           pubs == IF nvdLinkUp THEN NvdPublishes(msg.topic, msg.payload) ELSE <<>> IN
       /\ nvdPubs' = NvdCount(nvdPubs, Len(pubs))
       /\ nvdInbox' = Tail(nvdInbox) \o NvdDelivered(pubs)
    /\ UNCHANGED <<nvdInjected, nvdLinkUp>>
    /\ UNCHANGED notNvdMsg

\* Environment: another client publishes on a subscribed topic
NvdInbound(topic, payload) ==
    /\ nvdInjected < MaxNvdInbound
    /\ Len(nvdInbox) < MaxNvdInbox
    /\ nvdInjected' = nvdInjected + 1
    /\ nvdInbox' = Append(nvdInbox, [topic |-> topic, payload |-> payload])
    /\ UNCHANGED <<nvdPubs, nvdLinkUp>>
    /\ UNCHANGED notNvdMsg

\* Environment: the connection to the broker drops / comes back
NvdLinkDown ==
    /\ nvdLinkUp
    /\ nvdLinkUp' = FALSE
    /\ UNCHANGED <<nvdInbox, nvdInjected, nvdPubs>>
    /\ UNCHANGED notNvdMsg

NvdLinkBack ==
    /\ ~nvdLinkUp
    /\ nvdLinkUp' = TRUE
    /\ UNCHANGED <<nvdInbox, nvdInjected, nvdPubs>>
    /\ UNCHANGED notNvdMsg

NextNvdMsg ==
    \/ nvd_on_message
    \/ \E topic \in NvdSubscriptions, payload \in NvdPayloads : NvdInbound(topic, payload)
    \/ NvdLinkDown
    \/ NvdLinkBack

\* C23: a message received on device/telemetry/status leads to finitely many
\* publishes: with the network thread scheduled fairly the driver reaches a
\* quiescent state, no message left for it, for good.
C23_StatusQuiescent == <>[](nvdInbox = <<>>)

-----------------------------------------------------------------------------
(***************************************************************************)
(* multi_channel_network_video_decoder/driver.py: connect_mqtt, called by  *)
(* run (at start, and from its main loop when mqtt_connected is clear) and *)
(* by on_disconnect, which runs in the network thread of the client that   *)
(* lost its connection.  Every call makes a new mqtt.Client and starts its *)
(* network loop; the client it replaces is not stopped.                    *)
(* Positions: "idle" (not in connect_mqtt), "sleep" (on_disconnect's       *)
(* time.sleep(5)), "connect" (new client, loop not started), "wait"        *)
(* (mqtt_connected.wait), "retry" (same client, loop started).             *)
(***************************************************************************)
MaxNvdClients == 3

NvdCallers == {"main", "callback"}

InitNvd ==
    /\ nvdEvent = FALSE
    /\ nvdPc = [w \in NvdCallers |-> IF w = "main" THEN "connect" ELSE "idle"]
    /\ nvdLive = 0
    /\ nvdLinked = FALSE
    /\ nvdBrokerUp = TRUE

\* the connect_mqtt invocations in progress
NvdInProgress == {w \in NvdCallers : nvdPc[w] \in {"connect", "wait", "retry"}}

\* run, the main loop: "if not self.mqtt_connected.is_set(): connect_mqtt()"
nvd_run_check ==
    /\ nvdPc["main"] = "idle"
    /\ ~nvdEvent
    /\ nvdPc' = [nvdPc EXCEPT !["main"] = "connect"]
    /\ UNCHANGED <<nvdEvent, nvdLive, nvdLinked, nvdBrokerUp>>
    /\ UNCHANGED notNvd

\* connect_mqtt: connect() and loop_start().  connect() raises when the
\* broker is away: log, sleep, next pass.
nvd_connect(w) ==
    /\ nvdPc[w] \in {"connect", "retry"}
    /\ IF nvdBrokerUp
         THEN /\ nvdPc[w] = "connect" => nvdLive < MaxNvdClients
              /\ nvdLive' = IF nvdPc[w] = "connect" THEN nvdLive + 1 ELSE nvdLive
              /\ nvdPc' = [nvdPc EXCEPT ![w] = "wait"]
         ELSE UNCHANGED <<nvdLive, nvdPc>>
    /\ UNCHANGED <<nvdEvent, nvdLinked, nvdBrokerUp>>
    /\ UNCHANGED notNvd

\* connect_mqtt: "if self.mqtt_connected.wait(timeout=10): break", then the
\* subscriptions; on a timeout the loop goes round with the same client
nvd_connect_wait(w) ==
    /\ nvdPc[w] = "wait"
    /\ nvdPc' = [nvdPc EXCEPT ![w] = IF nvdEvent THEN "idle" ELSE "retry"]
    /\ UNCHANGED <<nvdEvent, nvdLive, nvdLinked, nvdBrokerUp>>
    /\ UNCHANGED notNvd

\* on_connect (rc = 0) of a client whose loop runs
nvd_on_connect ==
    /\ nvdLive > 0
    /\ nvdBrokerUp
    /\ ~nvdLinked
    /\ nvdEvent' = TRUE
    /\ nvdLinked' = TRUE
    /\ UNCHANGED <<nvdPc, nvdLive, nvdBrokerUp>>
    /\ UNCHANGED notNvd

\* on_disconnect: clear the event, then sleep 5 s before connect_mqtt
nvd_on_disconnect ==
    /\ nvdLinked
    /\ ~nvdBrokerUp
    /\ nvdPc["callback"] = "idle"
    /\ nvdLinked' = FALSE
    /\ nvdEvent' = FALSE
    /\ nvdPc' = [nvdPc EXCEPT !["callback"] = "sleep"]
    /\ UNCHANGED <<nvdLive, nvdBrokerUp>>
    /\ UNCHANGED notNvd

\* on_disconnect: the sleep is over, "self.connect_mqtt()"
nvd_on_disconnect_reconnect ==
    /\ nvdPc["callback"] = "sleep"
    /\ nvdPc' = [nvdPc EXCEPT !["callback"] = "connect"]
    /\ UNCHANGED <<nvdEvent, nvdLive, nvdLinked, nvdBrokerUp>>
    /\ UNCHANGED notNvd

\* Environment: the broker goes away / comes back
NvdBrokerDown ==
    /\ nvdBrokerUp
    /\ nvdBrokerUp' = FALSE
    /\ UNCHANGED <<nvdEvent, nvdPc, nvdLive, nvdLinked>>
    /\ UNCHANGED notNvd

NvdBrokerBack ==
    /\ ~nvdBrokerUp
    /\ nvdBrokerUp' = TRUE
    /\ UNCHANGED <<nvdEvent, nvdPc, nvdLive, nvdLinked>>
    /\ UNCHANGED notNvd

NextNvd ==
    \/ nvd_run_check
    \/ \E w \in NvdCallers : nvd_connect(w)
    \/ \E w \in NvdCallers : nvd_connect_wait(w)
    \/ nvd_on_connect
    \/ nvd_on_disconnect
    \/ nvd_on_disconnect_reconnect
    \/ NvdBrokerDown
    \/ NvdBrokerBack

\* C24: at most one connect_mqtt invocation is in progress and at most one
\* MQTT client object is live at any time.
C24_OneConnectOneClient ==
    /\ Cardinality(NvdInProgress) <= 1
    /\ nvdLive <= 1

-----------------------------------------------------------------------------
(***************************************************************************)
(* wheeltecros机器人/driver.py: main, MQTTDriver.connect, the connection    *)
(* callbacks and phase_monitor.                                            *)
(***************************************************************************)
MaxCarPolls == 5

InitCarConn ==
    /\ carMainPc = "boot"
    /\ connect_event = FALSE
    /\ disconnect_event = FALSE
    /\ carLink = "none"
    /\ edgeDevicePhase = ""
    /\ prev_phase = "Running"
    /\ carPolls = 0
    /\ k8sUp = TRUE

\* EdgeDeviceStatusManager.update_phase: the patch, an ApiException is
\* logged and swallowed
update_phase(cur, phase) == IF k8sUp THEN phase ELSE cur

\* main, up to the start of the server: update_phase("Pending"), then
\* mqtt_driver.connect: ok when the CONNACK (_on_connect, rc = 0) arrives in
\* time, else the exception, update_phase("Failed") and sys.exit(1)
car_main_connect(ok) ==
    /\ carMainPc = "boot"
    /\ IF ok
         THEN /\ connect_event' = TRUE
              /\ carLink' = "up"
              /\ edgeDevicePhase' = update_phase(update_phase(edgeDevicePhase, "Pending"), "Running")
              /\ carMainPc' = "serving"
         ELSE /\ edgeDevicePhase' = update_phase(update_phase(edgeDevicePhase, "Pending"), "Failed")
              /\ carMainPc' = "exited"
              /\ UNCHANGED <<connect_event, carLink>>
    /\ UNCHANGED <<disconnect_event, prev_phase, carPolls, k8sUp>>
    /\ UNCHANGED notCarConn

\* the connection is lost: _on_disconnect
car_on_disconnect ==
    /\ carMainPc = "serving"
    /\ carLink = "up"
    /\ carLink' = "lost"
    /\ disconnect_event' = TRUE
    /\ UNCHANGED <<carMainPc, connect_event, edgeDevicePhase, prev_phase, carPolls, k8sUp>>
    /\ UNCHANGED notCarConn

\* the network loop has reconnected: _on_connect, rc = 0
car_on_connect ==
    /\ carMainPc = "serving"
    /\ carLink = "lost"
    /\ carLink' = "up"
    /\ connect_event' = TRUE
    /\ UNCHANGED <<carMainPc, disconnect_event, edgeDevicePhase, prev_phase, carPolls, k8sUp>>
    /\ UNCHANGED notCarConn

\* phase_monitor: one pass of its loop (update_phase raises nothing, so the
\* except clause is not taken)
phase_monitor ==
    /\ carMainPc = "serving"
    /\ IF ~connect_event
         THEN /\ edgeDevicePhase' = update_phase(edgeDevicePhase, "Failed")
              /\ prev_phase' = "Failed"
         ELSE IF prev_phase # "Running"
           THEN /\ edgeDevicePhase' = update_phase(edgeDevicePhase, "Running")
                /\ prev_phase' = "Running"
           ELSE UNCHANGED <<edgeDevicePhase, prev_phase>>
    /\ carPolls' = IF carPolls < MaxCarPolls THEN carPolls + 1 ELSE carPolls
    /\ UNCHANGED <<carMainPc, connect_event, disconnect_event, carLink, k8sUp>>
    /\ UNCHANGED notCarConn

\* main: KeyboardInterrupt ends serve_forever; mqtt_driver.disconnect() and
\* update_phase("Unknown")
car_main_exit ==
    /\ carMainPc = "serving"
    /\ carMainPc' = "exited"
    /\ carLink' = "none"
    /\ disconnect_event' = TRUE
    /\ edgeDevicePhase' = update_phase(edgeDevicePhase, "Unknown")
    /\ UNCHANGED <<connect_event, prev_phase, carPolls, k8sUp>>
    /\ UNCHANGED notCarConn

\* Environment: the Kubernetes API refuses / accepts patches
K8sDown ==
    /\ k8sUp
    /\ k8sUp' = FALSE
    /\ UNCHANGED <<carMainPc, connect_event, disconnect_event, carLink,
                   edgeDevicePhase, prev_phase, carPolls>>
    /\ UNCHANGED notCarConn

K8sBack ==
    /\ ~k8sUp
    /\ k8sUp' = TRUE
    /\ UNCHANGED <<carMainPc, connect_event, disconnect_event, carLink,
                   edgeDevicePhase, prev_phase, carPolls>>
    /\ UNCHANGED notCarConn

NextCarConn ==
    \/ \E ok \in BOOLEAN : car_main_connect(ok)
    \/ car_on_disconnect
    \/ car_on_connect
    \/ phase_monitor
    \/ car_main_exit
    \/ K8sDown
    \/ K8sBack

\* C25: the EdgeDevice phase follows the MQTT connection.  After the broker
\* connection is lost following a successful connect, phase_monitor, run
\* every 10 s, eventually sets the phase to Failed (unless the connection
\* comes back, the driver exits or the Kubernetes API refuses the patch
\* first); and the phase is set to Running only with the connection up.
C25_PhaseFollowsConnection ==
    /\ [](carLink = "lost"
            => <>(edgeDevicePhase = "Failed" \/ carLink # "lost" \/ ~k8sUp))
    /\ [][ (edgeDevicePhase' = "Running" /\ edgeDevicePhase # "Running")
             => carLink' = "up" ]_vars

-----------------------------------------------------------------------------
(***************************************************************************)
(* ba_cnet_hvac_room_controller_(se_8000/vt_8300_simulated)/driver.py:     *)
(* SimulatedBACnet and the routes /api/control and /api/data.              *)
(* self.status is recomputed from the mode and the (constant) temperatures *)
(* by _update_ventilation_and_status before every read, so it is an        *)
(* operator of the mode here.  Descriptions are left out.                  *)
(***************************************************************************)
MaxSimSeen == 3

\* SimulatedBACnet.__init__: analog_values[0] and the presets
InitActive == 22
PresetValues == <<20, 22, 24>>

\* analog_inputs[0] and [1]
Indoor == 22
Outdoor == 12

SimModes == {"absent", "Cooling", "bogus"}
\* data['active_setpoint_index']: absent, a number, or text int() rejects
SimIndexes == {[kind |-> "absent", v |-> 0], [kind |-> "bad", v |-> 0],
               [kind |-> "int", v |-> 0], [kind |-> "int", v |-> 2]}
\* an entry of data['setpoints']; ok is FALSE when int(s['index']) or
\* float(s['value']) raises
SimGood == [idx |-> 1, val |-> 21, ok |-> TRUE]
SimOutOfRange == [idx |-> 0, val |-> 21, ok |-> TRUE]
SimMalformed == [idx |-> 2, val |-> 0, ok |-> FALSE]
\* data['setpoints']; <<>> also stands for an absent key
SimSetpointLists == {<<>>, <<SimGood>>, <<SimOutOfRange>>, <<SimGood, SimMalformed>>}
SimOos == {"absent", "true"}
SimBodies == [mode : SimModes, active : SimIndexes, setpoints : SimSetpointLists,
              oos : SimOos]

DeviceState == [mode |-> multistate_value, active |-> analog_value0,
                presets |-> simPresets, oos |-> out_of_service]

InitSim ==
    /\ multistate_value = 2
    /\ analog_value0 = InitActive
    /\ simPresets = PresetValues
    /\ out_of_service = FALSE
    /\ simCtlCode = 0
    /\ simReadPc = "idle"
    /\ simData = [setpoints |-> "none", status |-> "none"]
    /\ simSeen = {}

\* _update_ventilation_and_status: the ventilation level for a mode
VentilationLevel(mode) ==
    LET diff == Indoor - Outdoor IN
    IF mode = 2 THEN (IF diff < 4 THEN 1 ELSE IF diff < 8 THEN 2 ELSE 3)
    ELSE IF mode = 3 THEN (IF diff > -10 THEN 1 ELSE IF diff > -20 THEN 2 ELSE 3)
    ELSE 1

\* get_setpoints, as a function of the device state
GetSetpoints(s) ==
    [presets |-> s.presets,
     active |-> [index |-> s.active,
                 value |-> IF s.active \in {1, 2, 3} THEN s.presets[s.active] ELSE 0],
     out_of_service |-> s.oos]

\* get_status, as a function of the device state
GetStatus(s) ==
    [operating_mode |-> s.mode,
     ventilation_level |-> VentilationLevel(s.mode),
     heater_status |-> (s.mode = 2),
     chiller_status |-> (s.mode = 3)]

\* mode_map_rev.get(mode, self.multistate_value[0])
ModeOf(name, cur) ==
    IF name = "Stop" THEN 1 ELSE IF name = "Heating" THEN 2
    ELSE IF name = "Cooling" THEN 3 ELSE cur

\* the loop over data['setpoints']: the presets after it and whether an
\* entry raised (the entries before it have been applied)
RECURSIVE ApplySetpoints(_, _)
ApplySetpoints(presets, list) ==
    IF list = <<>> THEN [presets |-> presets, raised |-> FALSE]
    ELSE LET s == Head(list) IN
         IF ~s.ok THEN [presets |-> presets, raised |-> TRUE]
         ELSE ApplySetpoints(IF s.idx \in {1, 2, 3}
                               THEN [presets EXCEPT ![s.idx] = s.val]
                               ELSE presets,
                             Tail(list))

\* set_control: the device state after it, and whether it raised; the fields
\* are applied in order, and an exception leaves what was applied before it
SetControl(s, data) ==
    LET s1 == IF data.mode = "absent" THEN s
              ELSE [s EXCEPT !.mode = ModeOf(data.mode, s.mode)] IN
    IF data.active.kind = "bad" THEN [state |-> s1, raised |-> TRUE]
    ELSE
    LET s2 == IF data.active.kind = "int" /\ data.active.v \in {1, 2, 3}
                THEN [s1 EXCEPT !.active = data.active.v] ELSE s1
        r == ApplySetpoints(s2.presets, data.setpoints)
        s3 == [s2 EXCEPT !.presets = r.presets] IN
    IF r.raised THEN [state |-> s3, raised |-> TRUE]
    ELSE [state |-> IF data.oos = "absent" THEN s3
                    ELSE [s3 EXCEPT !.oos = (data.oos = "true")],
          raised |-> FALSE]

\* api_control: set_control under the lock; an exception of set_control
\* leaves the handler, Flask answers 500
sim_api_control(data) ==
    /\ Cardinality(simSeen) < MaxSimSeen
    /\ LET r == SetControl(DeviceState, data) IN
       /\ multistate_value' = r.state.mode
       /\ analog_value0' = r.state.active
       /\ simPresets' = r.state.presets
       /\ out_of_service' = r.state.oos
       /\ simCtlCode' = IF r.raised THEN 500 ELSE 200
       /\ simSeen' = IF simReadPc \in {"temps", "setpoints"}
                       THEN simSeen \cup {r.state} ELSE simSeen
    /\ UNCHANGED <<simReadPc, simData>>
    /\ UNCHANGED notSim

\* api_data / get_full_data: get_temperatures, its own locked section
get_full_data_temperatures ==
    /\ simReadPc \in {"idle", "done"}
    /\ simReadPc' = "temps"
    /\ simData' = [setpoints |-> "none", status |-> "none"]
    /\ simSeen' = {DeviceState}
    /\ UNCHANGED <<multistate_value, analog_value0, simPresets, out_of_service, simCtlCode>>
    /\ UNCHANGED notSim

\* get_full_data: get_setpoints, its own locked section
get_full_data_setpoints ==
    /\ simReadPc = "temps"
    /\ simReadPc' = "setpoints"
    /\ simData' = [simData EXCEPT !.setpoints = GetSetpoints(DeviceState)]
    /\ UNCHANGED <<multistate_value, analog_value0, simPresets, out_of_service,
                   simCtlCode, simSeen>>
    /\ UNCHANGED notSim

\* get_full_data: get_status, its own locked section, and the response
get_full_data_status ==
    /\ simReadPc = "setpoints"
    /\ simReadPc' = "done"
    /\ simData' = [simData EXCEPT !.status = GetStatus(DeviceState)]
    /\ UNCHANGED <<multistate_value, analog_value0, simPresets, out_of_service,
                   simCtlCode, simSeen>>
    /\ UNCHANGED notSim

NextSim ==
    \/ \E data \in SimBodies : sim_api_control(data)
    \/ get_full_data_temperatures
    \/ get_full_data_setpoints
    \/ get_full_data_status

\* C26: the active setpoint index in analog_values[0] is 1, 2 or 3 in every
\* reachable state, from construction onward.
C26_ActiveIndexValid == analog_value0 \in {1, 2, 3}

\* C27: a POST /api/control whose set_control fails part-way leaves the
\* simulated device state exactly as it was before the request.
C27_FailedControlAppliesNothing ==
    [][ ((\E data \in SimBodies : sim_api_control(data)) /\ simCtlCode' = 500)
          => UNCHANGED <<multistate_value, analog_value0, simPresets, out_of_service>> ]_vars

\* C28: the setpoints and status parts of one GET /api/data response are
\* those of a single state the device was in during the request.
C28_ConsistentSnapshot ==
    simReadPc = "done"
       => \E s \in simSeen : /\ simData.setpoints = GetSetpoints(s)
                             /\ simData.status = GetStatus(s)

-----------------------------------------------------------------------------
(***************************************************************************)
(* smart_environmental_monitoring_device/driver.py: the publish_telemetry  *)
(* thread.  main() starts it as a daemon thread; it runs                   *)
(*     while True: simulate_sensor(); publish ...; time.sleep(30)          *)
(* without any try/except, next to on_message, which the network loop of   *)
(* the main thread calls.  An exception raised in simulate_sensor ends the *)
(* thread; the process and on_message go on.                               *)
(***************************************************************************)
MaxTelBatches == 2
MaxEnvRestarts == 1

\* the readings simulate_sensor draws: int(10 + uniform(-2, 7)) and
\* int(400 + uniform(-20, 50)), the smallest and the largest of each
PmReadings == {8, 16}
Co2Readings == {380, 449}

InitEnvTel ==
    /\ telPc = "simulate"
    /\ telBatches = 0
    /\ envRestarts = 0

\* "state["airquality"][k] > state["alarm_threshold"].get(k, 99999)": both
\* keys are in the dict from the start and update() never removes one, so
\* the default is not used.  Comparing an int with a str, None, list or
\* dict raises TypeError.
Raises(threshold) == threshold = NotANumber

\* simulate_sensor(), called by publish_telemetry: draw the readings, then
\* the alarm check over ("PM2.5", "CO2") in this order, leaving the loop at
\* the first reading above its threshold.
simulate_sensor(pm, co2) ==
    /\ telPc = "simulate"
    /\ IF Raises(alarm_threshold["PM2.5"])
       THEN telPc' = "dead" /\ UNCHANGED alarm_active
       ELSE IF pm > alarm_threshold["PM2.5"]
       THEN telPc' = "publish" /\ alarm_active' = TRUE
       ELSE IF Raises(alarm_threshold["CO2"])
       THEN telPc' = "dead" /\ UNCHANGED alarm_active
       ELSE IF co2 > alarm_threshold["CO2"]
       THEN telPc' = "publish" /\ alarm_active' = TRUE
       ELSE telPc' = "publish" /\ alarm_active' = FALSE
    /\ UNCHANGED <<alarm_threshold, led_brightness, status_led, buzzer, envAck>>
    /\ UNCHANGED <<telBatches, envRestarts>>
    /\ UNCHANGED notEnvAll

\* publish_telemetry: the four publishes of one batch
publish_telemetry_batch ==
    /\ telPc = "publish"
    /\ telPc' = "sleep"
    /\ telBatches' = IF telBatches < MaxTelBatches THEN telBatches + 1
                     ELSE telBatches
    /\ UNCHANGED envRestarts
    /\ UNCHANGED envVars
    /\ UNCHANGED notEnvAll

\* publish_telemetry: time.sleep(PUBLISH_INTERVAL_30S) returns
publish_telemetry_sleep ==
    /\ telPc = "sleep"
    /\ telPc' = "simulate"
    /\ UNCHANGED <<telBatches, envRestarts>>
    /\ UNCHANGED envVars
    /\ UNCHANGED notEnvAll

\* on_message, topic device/commands/restart with payload RESTART: publish
\* the ack and os.execv: the process starts again, with the state dict of
\* the module and a new publish_telemetry thread.
on_message_restart ==
    /\ envRestarts < MaxEnvRestarts
    /\ envRestarts' = envRestarts + 1
    /\ alarm_threshold' = PresetThreshold
    /\ led_brightness' = PresetBrightness
    /\ status_led' = "on"
    /\ buzzer' = "DISABLE"
    /\ alarm_active' = FALSE
    /\ envAck' = [topic |-> "device/commands/restart/ack",
                  result |-> "restarting"]
    /\ telPc' = "simulate"
    /\ UNCHANGED telBatches
    /\ UNCHANGED notEnvAll

\* on_message, topic device/commands/calibrate with payload CALIBRATE
on_message_calibrate ==
    /\ envAck' = [topic |-> "device/commands/calibrate/ack",
                  result |-> "calibrated"]
    /\ UNCHANGED <<alarm_threshold, led_brightness, status_led, buzzer,
                   alarm_active>>
    /\ UNCHANGED envTelVars
    /\ UNCHANGED notEnvAll

TelemetryStep ==
    \/ \E pm \in PmReadings, co2 \in Co2Readings : simulate_sensor(pm, co2)
    \/ publish_telemetry_batch
    \/ publish_telemetry_sleep

NextEnvTel ==
    \/ \E p \in ThresholdPayloads : on_message_alarm_threshold(p)
    \/ \E p \in LedPayloads : on_message_led(p)
    \/ \E p \in BuzzerPayloads : on_message_buzzer(p)
    \/ on_message_reset
    \/ on_message_restart
    \/ on_message_calibrate
    \/ \E pm \in PmReadings, co2 \in Co2Readings : simulate_sensor(pm, co2)
    \/ publish_telemetry_batch
    \/ publish_telemetry_sleep

\* C29: telemetry publishing is never stopped by inbound messages: whatever
\* configuration and command messages are received, alarm_threshold objects
\* with values of any JSON type included, the publish_telemetry thread
\* publishes a batch again and again.
C29_TelemetryNeverStops == []<>(telPc = "sleep")

-----------------------------------------------------------------------------
(***************************************************************************)
(* Specifications: one per driver                                          *)
(***************************************************************************)
Init ==
    /\ InitRTSP
    /\ InitBB
    /\ InitHik
    /\ InitRos
    /\ InitCar
    /\ InitCarSub
    /\ InitRC
    /\ InitBBCtl
    /\ InitHV
    /\ InitEnv
    /\ InitDec
    /\ InitSdk
    /\ InitTh
    /\ InitSdkMsg
    /\ InitNvdMsg
    /\ InitNvd
    /\ InitCarConn
    /\ InitSim
    /\ InitEnvTel

SpecRTSP == Init /\ [][NextRTSP]_vars

\* The threads of the RTSP driver are scheduled fairly: a request that can
\* step eventually does.
FairSpecRTSP ==
    /\ SpecRTSP
    /\ \A g \in Gens : WF_vars(gen_check(g))
    /\ \A g \in Gens : WF_vars(gen_yield(g) \/ gen_disconnect(g))

\* As FairSpecRTSP, and the capture thread is scheduled fairly too: it gets
\* the lock and runs its next iteration.
FairSpecCapture ==
    /\ FairSpecRTSP
    /\ WF_vars(update_frames)

SpecBB  == Init /\ [][NextBB]_vars
SpecHik == Init /\ [][NextHik]_vars
SpecRos == Init /\ [][NextRos]_vars
SpecCar == Init /\ [][NextCar]_vars

\* the subscribe side of the Wheeltecros driver, once main serves
SpecCarSub == Init /\ [][NextCarSub]_vars
SpecRC == Init /\ [][NextRC]_vars

SpecBBCtl == Init /\ [][NextBBCtl]_vars

SpecHV == Init /\ [][NextHV]_vars

\* Every handler runs on a thread of its own that is scheduled fairly, and
\* the 3 s of a wait on the queue pass.
FairSpecHV ==
    /\ SpecHV
    /\ \A h \in HvRequests : WF_vars(bacnet_request(h))
    /\ \A h \in HvRequests : WF_vars(bacnet_response(h) \/ bacnet_timeout(h))

SpecEnv == Init /\ [][NextEnv]_vars

SpecDec == Init /\ [][NextDec]_vars

\* the publisher threads and the main thread are scheduled fairly
FairSpecDec ==
    /\ SpecDec
    /\ \A t \in DecTopics : WF_vars(PublisherStep(t))
    /\ WF_vars(start_scheduled_publishers)

SpecSdk == Init /\ [][NextSdk]_vars

SpecTh == Init /\ [][NextTh]_vars

SpecSdkMsg == Init /\ [][NextSdkMsg]_vars

\* the client's network thread runs on_message for every message delivered
FairSpecSdkMsg == SpecSdkMsg /\ WF_vars(sdk_on_message)

SpecNvdMsg == Init /\ [][NextNvdMsg]_vars

\* the client's network thread runs on_message for every message delivered
FairSpecNvdMsg == SpecNvdMsg /\ WF_vars(nvd_on_message)

SpecNvd == Init /\ [][NextNvd]_vars

SpecCarConn == Init /\ [][NextCarConn]_vars

\* the phase_monitor thread runs its loop every 10 s while main serves.
\* (Past MaxCarPolls a pass that changes nothing repeats the state.)
FairSpecCarConn == SpecCarConn /\ WF_vars(phase_monitor)

SpecSim == Init /\ [][NextSim]_vars

SpecEnvTel == Init /\ [][NextEnvTel]_vars
FairSpecEnvTel == SpecEnvTel /\ WF_vars(TelemetryStep)

=============================================================================
